---- MODULE Spec2Model ----
(***************************************************************************)
(* Lutron Homeworks integration (kaaspad/HWI_HA): the message parser, the  *)
(* CCO state engine of the coordinator and the async client's read loop    *)
(* with its transport, as state machines.                                  *)
(*                                                                         *)
(* Text is modelled as a sequence of one-character strings; a byte stream  *)
(* is a sequence of such characters, with "xFF" standing for a byte that   *)
(* is not valid UTF-8.  Message timestamps (datetime.now()) are left out.  *)
(***************************************************************************)
EXTENDS Integers, Sequences, FiniteSets, TLC

VARIABLES
    \* --- MessageParser under test (SpecParser) ---
    stream,      \* the byte stream S that the peer sends
    pos,         \* how many bytes of stream have been fed so far
    buffer,      \* MessageParser._buffer
    out,         \* concatenation of the lists returned by the feed() calls
    lastRet,     \* the list returned by the latest feed() call
    \* --- CCO state engine of HomeworksCoordinator (SpecEngine) ---
    _kls_window_offset,   \* configured window offset
    _cco_devices,         \* registry: unique_key -> CCODevice
    _cco_states,          \* state cache: unique_key -> bool
    _kls_poll_addresses,  \* set of [pp:ll:aa] addresses to poll
    _keypad_led_states,   \* normalized address -> led vector
    notified,             \* async_set_updated_data calls of the latest operation
    lastOp,               \* the latest operation and its arguments
    changed,              \* keys whose cached state the latest operation changed
    \* --- async HomeworksClient, its transport and its callers (SpecClient) ---
    _running,             \* HomeworksClient._running
    _read_task,           \* the read task: "none", "alive", "cancelling",
                          \* "cancelled", "finished" or "crashed"
    runPc,                \* the await at which _run is suspended
    sockOpen,             \* transport._reader / _writer are set
    _connected,           \* transport._connected
    _reconnect_delay,     \* HomeworksClient._reconnect_delay
    hasCreds,             \* credentials were given to the constructor
    subWritten,           \* subscription commands written on the current socket
    readIssued,           \* a read was issued on the current socket
    conns,                \* sockets opened so far (counted up to 2)
    failCount,            \* failed connect attempts in a row of this read loop
    failTotal,            \* failed connect attempts in a row of the client
    lastAct,              \* the latest step taken
    stopPc,               \* the host's stop() call: "idle" or "await_task"
    stopResult,           \* how the latest stop() call ended
    \* --- command methods of the Home Assistant wrapper (SpecCommands) ---
    _command_lock,        \* holder of HomeworksClient._command_lock, or "free"
    cmdPc,                \* per host task: "idle", "waiting", "delay" (the sleep
                          \* after its write) or "delay_unsent" (the sleep after
                          \* a write that found no socket)
    cmdsLeft,             \* commands the host may still issue
    lastWrite,            \* the latest write made on the transport
    \* --- HomeworksTransport called on its own (SpecTransport) ---
    _reader,              \* transport._reader is set
    _writer,              \* transport._writer is set
    lastCall,             \* the latest call: its arguments, what the network
                          \* did during it, and how it ended
    \* --- start() / stop() of HomeworksClient and its tasks (SpecLifecycle) ---
    loops,                \* per task created for _run: the await at which it
                          \* is suspended, and whether cancel() was called
    readTaskRef,          \* HomeworksClient._read_task: the task it names
    hostPc,               \* per host task: "idle" or "stop_await"
    hostWait,             \* per host task: the task its stop() awaits
    \* --- HomeworksClient wrapper of homeworks_hwi (SpecWrapper) ---
    wrapper               \* _was_connected, health.connected,
                          \* health.reconnect_count and the connection events
                          \* handed to the host callback so far

parserVars == <<stream, pos, buffer, out, lastRet>>
engineVars == <<_kls_window_offset, _cco_devices, _cco_states,
                _kls_poll_addresses, _keypad_led_states, notified, lastOp,
                changed>>
clientVars == <<_running, _read_task, runPc, sockOpen, _connected,
                _reconnect_delay, hasCreds, subWritten, readIssued, conns,
                failCount, failTotal, lastAct, stopPc, stopResult>>
commandVars == <<_command_lock, cmdPc, cmdsLeft, lastWrite>>
transportVars == <<_reader, _writer, lastCall>>
lifecycleVars == <<loops, readTaskRef, hostPc, hostWait>>
vars == <<parserVars, engineVars, clientVars, commandVars, transportVars,
          lifecycleVars, wrapper>>

(***************************************************************************)
(* Text helpers (Python str methods, as the parser uses them)              *)
(***************************************************************************)

\* Characters str.strip() removes
Whitespace == {" ", "\t", "\r", "\n"}

RECURSIVE LStripSet(_, _)
LStripSet(s, cs) ==
    IF s # <<>> /\ Head(s) \in cs THEN LStripSet(Tail(s), cs) ELSE s

RECURSIVE RStripSet(_, _)
RStripSet(s, cs) ==
    IF s # <<>> /\ s[Len(s)] \in cs
    THEN RStripSet(SubSeq(s, 1, Len(s) - 1), cs)
    ELSE s

\* str.strip(chars)
StripSet(s, cs) == RStripSet(LStripSet(s, cs), cs)

\* str.strip()
Strip(s) == StripSet(s, Whitespace)

\* TRUE iff sep occurs in s starting at index i
MatchAt(s, sep, i) ==
    /\ i + Len(sep) - 1 <= Len(s)
    /\ \A k \in 1..Len(sep) : s[i + k - 1] = sep[k]

\* index of the first occurrence of sep in s at or after i, 0 if none
RECURSIVE FindFrom(_, _, _)
FindFrom(s, sep, i) ==
    IF i + Len(sep) - 1 > Len(s) THEN 0
    ELSE IF MatchAt(s, sep, i) THEN i
    ELSE FindFrom(s, sep, i + 1)

\* index of the first occurrence of sep in s, 0 if none (bytes.find + 1)
Find(s, sep) == FindFrom(s, sep, 1)

\* str.split(sep): the list of the pieces between the occurrences of sep
RECURSIVE Split(_, _)
Split(s, sep) ==
    LET i == Find(s, sep) IN
    IF i = 0 THEN <<s>>
    ELSE <<SubSeq(s, 1, i - 1)>> \o Split(SubSeq(s, i + Len(sep), Len(s)), sep)

\* ":".join(parts)
RECURSIVE Join(_, _)
Join(parts, sep) ==
    IF parts = <<>> THEN <<>>
    ELSE IF Len(parts) = 1 THEN parts[1]
    ELSE parts[1] \o sep \o Join(Tail(parts), sep)

LowerLetters == <<"a","b","c","d","e","f","g","h","i","j","k","l","m",
                  "n","o","p","q","r","s","t","u","v","w","x","y","z">>
UpperLetters == <<"A","B","C","D","E","F","G","H","I","J","K","L","M",
                  "N","O","P","Q","R","S","T","U","V","W","X","Y","Z">>

\* str.upper(), one character
UpperChar(c) ==
    IF \E i \in 1..26 : LowerLetters[i] = c
    THEN UpperLetters[CHOOSE i \in 1..26 : LowerLetters[i] = c]
    ELSE c

\* str.lower(), one character
LowerChar(c) ==
    IF \E i \in 1..26 : UpperLetters[i] = c
    THEN LowerLetters[CHOOSE i \in 1..26 : UpperLetters[i] = c]
    ELSE c

Upper(s) == [i \in 1..Len(s) |-> UpperChar(s[i])]
Lower(s) == [i \in 1..Len(s) |-> LowerChar(s[i])]

Digits == <<"0","1","2","3","4","5","6","7","8","9">>

\* str.isdigit(), one character
IsDigit(c) == \E i \in 1..10 : Digits[i] = c

\* int(c) of one digit character
DigitVal(c) == (CHOOSE i \in 1..10 : Digits[i] = c) - 1

RECURSIVE DigitsVal(_)
DigitsVal(s) ==
    IF s = <<>> THEN 0
    ELSE 10 * DigitsVal(SubSeq(s, 1, Len(s) - 1)) + DigitVal(s[Len(s)])

\* int(s) raises ValueError
IntFails(s) ==
    LET t == Strip(s)
        u == IF t # <<>> /\ t[1] \in {"+", "-"} THEN Tail(t) ELSE t
    IN  u = <<>> \/ \E i \in 1..Len(u) : ~IsDigit(u[i])

\* int(s), where it does not raise
IntVal(s) ==
    LET t == Strip(s)
        u == IF t # <<>> /\ t[1] \in {"+", "-"} THEN Tail(t) ELSE t
    IN  IF t # <<>> /\ t[1] = "-" THEN 0 - DigitsVal(u) ELSE DigitsVal(u)

\* str.zfill(2)
ZFill2(p) ==
    IF Len(p) >= 2 THEN p
    ELSE IF p = <<>> THEN <<"0", "0">>
    ELSE IF p[1] \in {"+", "-"} THEN <<p[1], "0">>
    ELSE <<"0", p[1]>>

\* protocol.normalize_address
normalize_address(address) ==
    LET addr == StripSet(address, {"[", "]"})
        parts == Split(addr, <<":">>)
        formatted == Join([i \in 1..Len(parts) |-> ZFill2(parts[i])], <<":">>)
    IN  <<"[">> \o formatted \o <<"]">>

(***************************************************************************)
(* Message parser (protocol.py)                                           *)
(***************************************************************************)

CRLF == <<"\r", "\n">>

\* Number of LED states of a KLS message
KLS_LEN == 24

IGNORED_MESSAGES == {
    <<"K","e","y","p","a","d"," ","b","u","t","t","o","n"," ","m","o","n","i","t","o","r","i","n","g"," ","e","n","a","b","l","e","d">>,
    <<"K","e","y","p","a","d"," ","b","u","t","t","o","n"," ","m","o","n","i","t","o","r","i","n","g"," ","d","i","s","a","b","l","e","d">>,
    <<"G","r","a","f","i","k","E","y","e"," ","s","c","e","n","e"," ","m","o","n","i","t","o","r","i","n","g"," ","e","n","a","b","l","e","d">>,
    <<"G","r","a","f","i","k","E","y","e"," ","s","c","e","n","e"," ","m","o","n","i","t","o","r","i","n","g"," ","d","i","s","a","b","l","e","d">>,
    <<"D","i","m","m","e","r"," ","l","e","v","e","l"," ","m","o","n","i","t","o","r","i","n","g"," ","e","n","a","b","l","e","d">>,
    <<"D","i","m","m","e","r"," ","l","e","v","e","l"," ","m","o","n","i","t","o","r","i","n","g"," ","d","i","s","a","b","l","e","d">>,
    <<"K","e","y","p","a","d"," ","l","e","d"," ","m","o","n","i","t","o","r","i","n","g"," ","e","n","a","b","l","e","d">>,
    <<"K","e","y","p","a","d"," ","l","e","d"," ","m","o","n","i","t","o","r","i","n","g"," ","d","i","s","a","b","l","e","d">>,
    <<"C","C","O"," ","m","o","n","i","t","o","r","i","n","g"," ","e","n","a","b","l","e","d">>,
    <<"C","o","v","e","r"," ","m","o","n","i","t","o","r","i","n","g"," ","e","n","a","b","l","e","d">> }

\* A parser's "return None"
NoMessage == [type |-> "None"]

\* tuple(int(c) for c in led_string if c.isdigit())
RECURSIVE LedDigits(_)
LedDigits(s) ==
    IF s = <<>> THEN <<>>
    ELSE IF IsDigit(Head(s)) THEN <<DigitVal(Head(s))>> \o LedDigits(Tail(s))
    ELSE LedDigits(Tail(s))

\* str.isdigit() of one character: the ASCII digits and digits of other
\* scripts, of which the superscript two stands here
IsDigitStr(c) == IsDigit(c) \/ c = "²"

\* int(c) raises ValueError for some character that passed c.isdigit(): the
\* superscript digits are digits to str.isdigit() and not to int()
LedIntFails(s) == \E i \in 1..Len(s) : IsDigitStr(s[i]) /\ ~IsDigit(s[i])

\* led_states padded with 0 or truncated to 24
PadLeds(leds) ==
    IF Len(leds) < KLS_LEN
    THEN leds \o [i \in 1..(KLS_LEN - Len(leds)) |-> 0]
    ELSE SubSeq(leds, 1, KLS_LEN)

_parse_kls(line, parts) ==
    IF Len(parts) < 3 THEN NoMessage
    ELSE IF LedIntFails(parts[3]) THEN NoMessage
    ELSE [type |-> "KLS", raw |-> line,
          address |-> normalize_address(parts[2]),
          led_states |-> PadLeds(LedDigits(parts[3]))]

_parse_dl(line, parts) ==
    IF Len(parts) < 3 THEN NoMessage
    ELSE IF IntFails(parts[3]) THEN NoMessage
    ELSE [type |-> "DL", raw |-> line,
          address |-> normalize_address(parts[2]),
          level |-> IntVal(parts[3])]

\* the parser returned by _make_button_parser(event_type, source)
_button_parser(event_type, source, line, parts) ==
    IF Len(parts) < 3 THEN NoMessage
    ELSE IF IntFails(parts[3]) THEN NoMessage
    ELSE [type |-> "Button", raw |-> line,
          address |-> normalize_address(parts[2]),
          button |-> IntVal(parts[3]),
          event_type |-> event_type, source |-> source]

_parse_kes(line, parts) ==
    IF Len(parts) < 3 THEN NoMessage
    ELSE [type |-> "KES", raw |-> line,
          address |-> normalize_address(parts[2]),
          enabled |-> (Lower(parts[3]) = <<"e","n","a","b","l","e","d">>)]

_parse_gss(line, parts) ==
    IF Len(parts) < 3 THEN NoMessage
    ELSE IF IntFails(parts[3]) THEN NoMessage
    ELSE [type |-> "GSS", raw |-> line,
          address |-> normalize_address(parts[2]),
          scene |-> IntVal(parts[3])]

_parse_svs(line, parts) ==
    IF Len(parts) < 4 THEN NoMessage
    ELSE [type |-> "SVS", raw |-> line,
          address |-> normalize_address(parts[2]),
          command |-> parts[3], status |-> parts[4]]

\* The button verbs of _PARSERS: verb -> <<event type, source>>
ButtonVerbs == {
    <<<<"K","B","P">>, "pressed", "keypad">>,
    <<<<"K","B","R">>, "released", "keypad">>,
    <<<<"K","B","H">>, "hold", "keypad">>,
    <<<<"K","B","D","T">>, "double_tap", "keypad">>,
    <<<<"D","B","P">>, "pressed", "dimmer">>,
    <<<<"D","B","R">>, "released", "dimmer">>,
    <<<<"D","B","H">>, "hold", "dimmer">>,
    <<<<"D","B","D","T">>, "double_tap", "dimmer">>,
    <<<<"S","V","B","P">>, "pressed", "sivoia">>,
    <<<<"S","V","B","R">>, "released", "sivoia">>,
    <<<<"S","V","B","H">>, "hold", "sivoia">>,
    <<<<"S","V","B","D","T">>, "double_tap", "sivoia">> }

\* _PARSERS.get(command), applied; Unknown when the verb has no parser
_PARSERS(command, line, parts) ==
    IF command = <<"K","L","S">> THEN _parse_kls(line, parts)
    ELSE IF command = <<"D","L">> THEN _parse_dl(line, parts)
    ELSE IF \E b \in ButtonVerbs : b[1] = command
    THEN LET b == CHOOSE v \in ButtonVerbs : v[1] = command
         IN  _button_parser(b[2], b[3], line, parts)
    ELSE IF command = <<"K","E","S">> THEN _parse_kes(line, parts)
    ELSE IF command = <<"G","S","S">> THEN _parse_gss(line, parts)
    ELSE IF command = <<"S","V","S">> THEN _parse_svs(line, parts)
    ELSE [type |-> "Unknown", raw |-> line, parts |-> parts]

\* _parse_line without its strip(): the blanks around the line stay
_parse_line_unstripped(text) ==
    LET line == text IN
    IF line = <<>> \/ line \in IGNORED_MESSAGES THEN NoMessage
    ELSE LET raw == Split(line, <<",", " ">>)
             parts == [i \in 1..Len(raw) |-> Strip(raw[i])]
         IN  _PARSERS(Upper(parts[1]), line, parts)

\* MessageParser._parse_line
_parse_line(text) ==
    LET line == Strip(text) IN
    IF line = <<>> \/ line \in IGNORED_MESSAGES THEN NoMessage
    ELSE LET raw == Split(line, <<",", " ">>)
             parts == [i \in 1..Len(raw) |-> Strip(raw[i])]
         IN  _PARSERS(Upper(parts[1]), line, parts)

\* decode(errors="replace"): no line fails to decode
DecodeFails_replace(line) == FALSE

\* line.decode("utf-8") raises UnicodeDecodeError
DecodeFails(line) == \E i \in 1..Len(line) : line[i] = "xFF"

\* The body of feed()'s while loop for one extracted line: the messages it
\* appends (none for an empty line, a decode error or a parser's None)
LineMessages(line) ==
    IF line = <<>> THEN <<>>
    ELSE IF DecodeFails(line) THEN <<>>
    ELSE LET msg == _parse_line(line)
         IN  IF msg = NoMessage THEN <<>> ELSE <<msg>>

\* feed()'s loop: while CRLF in self._buffer
RECURSIVE FeedLoop(_, _)
FeedLoop(buf, messages) ==
    LET i == Find(buf, CRLF) IN
    IF i = 0 THEN [buffer |-> buf, messages |-> messages]
    ELSE FeedLoop(SubSeq(buf, i + 2, Len(buf)),
                  messages \o LineMessages(SubSeq(buf, 1, i - 1)))

\* reset() that leaves the buffer as it is
reset_keeps(buf) == buf

\* MessageParser.reset() on a parser whose buffer is buf: the new buffer
reset(buf) == <<>>

\* feed() without its buffer: the partial line kept from earlier calls is
\* forgotten
feed_nobuffer(buf, data) == FeedLoop(data, <<>>)

\* MessageParser.feed(data) on a parser whose buffer is buf:
\* the new buffer and the returned list
feed(buf, data) == FeedLoop(buf \o data, <<>>)

(***************************************************************************)
(* CCO state engine (models.py, coordinator.py)                            *)
(***************************************************************************)

\* A Python dict as a function on its set of keys
EmptyDict == [k \in {} |-> FALSE]

\* d[key] = value
DictSet(d, key, value) ==
    [k \in (DOMAIN d) \cup {key} |-> IF k = key THEN value ELSE d[k]]

\* d.pop(key, None)
DictPop(d, key) == [k \in (DOMAIN d) \ {key} |-> d[k]]

\* models.CCO_BUTTON_WINDOW_OFFSET, the default window offset
CCO_BUTTON_WINDOW_OFFSET == 9

\* Largest window offset the options form accepts
MAX_WINDOW_OFFSET == 16

\* Last button of the CCO window
CCO_BUTTON_WINDOW_LENGTH == 8

\* str(n) for n >= 0
RECURSIVE DecStr(_)
DecStr(n) ==
    IF n < 10 THEN <<Digits[n + 1]>>
    ELSE DecStr(n \div 10) \o <<Digits[(n % 10) + 1]>>

\* f"{n:02d}" for n >= 0
Fmt02d(n) == IF n < 10 THEN <<"0">> \o DecStr(n) ELSE DecStr(n)

\* CCOAddress.unique_key: (processor, link, address, button)
unique_key(a) == <<a.processor, a.link, a.address, a.button>>

\* CCOAddress.to_kls_address without zero padding, as to_command_address
to_kls_address_unpadded(a) ==
    <<"[">> \o DecStr(a.processor) \o <<":">> \o DecStr(a.link) \o <<":">>
        \o DecStr(a.address) \o <<"]">>

\* CCOAddress.to_kls_address
to_kls_address(a) ==
    <<"[">> \o Fmt02d(a.processor) \o <<":">> \o Fmt02d(a.link) \o <<":">>
        \o Fmt02d(a.address) \o <<"]">>

\* interpret_state without inversion: the inverted flag is ignored
interpret_state_noinvert(device, kls_digit) == kls_digit = 1

\* CCODevice.interpret_state
interpret_state(device, kls_digit) ==
    LET is_on == (kls_digit = 1)
    IN  IF device.inverted THEN ~is_on ELSE is_on

\* _handle_kls_update: parsing processor/link/address out of the normalized
\* address raises ValueError or IndexError
KlsAddressFails(normalized) ==
    LET parts == Split(StripSet(normalized, {"[", "]"}), <<":">>)
    IN  \/ Len(parts) < 3
        \/ \E i \in 1..3 : IntFails(parts[i])

\* _handle_kls_update: (processor, link, addr) of the normalized address
KlsAddressInts(normalized) ==
    LET parts == Split(StripSet(normalized, {"[", "]"}), <<":">>)
    IN  <<IntVal(parts[1]), IntVal(parts[2]), IntVal(parts[3])>>

\* _handle_kls_update, the test of the loop body without the bound on the
\* button: the device is at the address and its index is below the length
KlsCovers_any_button(device, pla, offset, led_states) ==
    /\ device.address.processor = pla[1]
    /\ device.address.link = pla[2]
    /\ device.address.address = pla[3]
    /\ offset + (device.address.button - 1) < Len(led_states)

\* _handle_kls_update, the test of the loop body: the device is at the
\* address, its button is in the window and its index is below the length
KlsCovers(device, pla, offset, led_states) ==
    /\ device.address.processor = pla[1]
    /\ device.address.link = pla[2]
    /\ device.address.address = pla[3]
    /\ 1 <= device.address.button
    /\ device.address.button <= CCO_BUTTON_WINDOW_LENGTH
    /\ offset + (device.address.button - 1) < Len(led_states)

\* led_states[index] of a Python list (0-based, negative from the end)
ListAt(list, index) ==
    IF index >= 0 THEN list[index + 1] ELSE list[Len(list) + index + 1]

\* _handle_kls_update: the state the loop body derives for a covered device
KlsNewState(device, offset, led_states) ==
    interpret_state(device,
                    ListAt(led_states, offset + (device.address.button - 1)))

\* _handle_kls_update: the keys whose cached state the loop rewrites
KlsChangedKeys(devices, states, pla, offset, led_states) ==
    { key \in DOMAIN devices :
        /\ KlsCovers(devices[key], pla, offset, led_states)
        /\ \/ key \notin DOMAIN states
           \/ states[key] # KlsNewState(devices[key], offset, led_states) }

\* _handle_kls_update notifying inside its loop: one notification per changed
\* device
KlsNotificationsPerDevice(changedKeys) == Cardinality(changedKeys)

\* _handle_kls_update: async_set_updated_data is called once, after the
\* loop, if state_changed
KlsNotifications(changedKeys) == IF changedKeys # {} THEN 1 ELSE 0

(***************************************************************************)
(* SpecParser: one MessageParser fed a byte stream in arbitrary chunks     *)
(***************************************************************************)

\* Largest number of segments a stream is built from
MaxSegs == 2

\* The pieces the streams are built from: single bytes (among them the two
\* terminator bytes, whitespace and an undecodable byte) and whole lines
Segments == <<
    <<"x">>,
    <<"\r">>,
    <<"\n">>,
    <<" ">>,
    <<"xFF">>,
    <<"D","L",","," ","1",":","2",","," ","7">>,
    <<"K","L","S",","," ","1",","," ","1","2","\r","\n","k","b","p",","," ","1",","," ","4","\r","\n">>,
    <<"G","S","S",","," ","1",","," ","x","\r","\n">>,
    <<"\r","\n">>,
    <<"d","l",","," ","1","\r","\n">> >>

RECURSIVE Flatten(_)
Flatten(ss) == IF ss = <<>> THEN <<>> ELSE Head(ss) \o Flatten(Tail(ss))

Streams ==
    UNION { { Flatten([i \in 1..n |-> Segments[f[i]]]) :
        f \in [1..n -> 1..Len(Segments)] } : n \in 0..MaxSegs }

\* The parser before any stream is attached
ParserIdle ==
    /\ stream = <<>>
    /\ pos = 0
    /\ buffer = <<>>
    /\ out = <<>>
    /\ lastRet = <<>>

\* The coordinator as constructed, with the default window offset
EngineIdle ==
    /\ _kls_window_offset = CCO_BUTTON_WINDOW_OFFSET
    /\ _cco_devices = EmptyDict
    /\ _cco_states = EmptyDict
    /\ _kls_poll_addresses = {}
    /\ _keypad_led_states = EmptyDict
    /\ notified = 0
    /\ lastOp = [op |-> "init"]
    /\ changed = {}

\* Reconnect backoff of the async client, in seconds
RECONNECT_DELAY_MIN == 1
RECONNECT_DELAY_MAX == 60
RECONNECT_DELAY_MULTIPLIER == 2

\* HomeworksClient and its transport as constructed: not started, no socket
ClientIdle ==
    /\ _running = FALSE
    /\ _read_task = "none"
    /\ runPc = "start"
    /\ sockOpen = FALSE
    /\ _connected = FALSE
    /\ _reconnect_delay = RECONNECT_DELAY_MIN
    /\ hasCreds = FALSE
    /\ subWritten = <<>>
    /\ readIssued = FALSE
    /\ conns = 0
    /\ failCount = 0
    /\ failTotal = 0
    /\ lastAct = [op |-> "init"]
    /\ stopPc = "idle"
    /\ stopResult = "none"

\* The wrapper's command path as constructed: lock free, no command issued
CommandsIdle ==
    /\ _command_lock = "free"
    /\ cmdPc = [t \in {"t1", "t2"} |-> "idle"]
    /\ cmdsLeft = 0
    /\ lastWrite = [by |-> "none"]

\* Largest number of read-loop tasks one client creates here
MaxLoops == 3

\* Host tasks that call start() and stop()
Hosts == {"h1", "h2"}

\* The client as constructed, seen by its hosts: no task was created
LifecycleIdle ==
    /\ loops = [i \in 1..MaxLoops |-> [pc |-> "unborn", cancel |-> FALSE]]
    /\ readTaskRef = 0
    /\ hostPc = [h \in Hosts |-> "idle"]
    /\ hostWait = [h \in Hosts |-> 0]

\* The wrapper as constructed: _was_connected False, a fresh ControllerHealth,
\* nothing reported
WrapperIdle ==
    wrapper = [_was_connected |-> FALSE, connected |-> FALSE,
               reconnect_count |-> 0, reported |-> {}]

\* The transport as constructed: no socket, no call made
TransportIdle ==
    /\ _reader = FALSE
    /\ _writer = FALSE
    /\ lastCall = [op |-> "none"]

InitParser ==
    /\ TransportIdle
    /\ LifecycleIdle
    /\ WrapperIdle
    /\ EngineIdle
    /\ ClientIdle
    /\ CommandsIdle
    /\ stream \in Streams
    /\ pos = 0
    /\ buffer = <<>>
    /\ out = <<>>
    /\ lastRet = <<>>

\* One feed() call delivering the next n bytes of the stream
FeedChunk ==
    \E n \in 1..(Len(stream) - pos) :
        LET r == feed(buffer, SubSeq(stream, pos + 1, pos + n)) IN
        /\ buffer' = r.buffer
        /\ lastRet' = r.messages
        /\ out' = out \o r.messages
        /\ pos' = pos + n
        /\ UNCHANGED <<stream, engineVars, clientVars, commandVars, transportVars, lifecycleVars, wrapper>>

NextParser == FeedChunk

SpecParser == InitParser /\ [][NextParser]_vars

\* What one feed() of the first k bytes of the stream returns on a fresh parser
OneShot(k) == feed(<<>>, SubSeq(stream, 1, k))

\* C1: feed() is insensitive to chunking: however the bytes fed so far were
\* cut into feed() calls, the concatenation of the returned lists is the list
\* one feed() of those bytes returns on a fresh parser, and the buffer kept is
\* the same; as this holds after every call, a line's message is returned by
\* the call that delivers the last byte of its CRLF and by no earlier one.
C1_ChunkInsensitive ==
    /\ out = OneShot(pos).messages
    /\ buffer = OneShot(pos).buffer

\* C1 witness: a line cut inside its CRLF and a second line completed by a
\* later call: two messages returned by two different calls
C1_Witness ==
    /\ pos = Len(stream)
    /\ Len(out) >= 2
    /\ Len(lastRet) = 1
    /\ buffer = <<>>

(***************************************************************************)
(* SpecEngine: register / unregister / KLS updates on one coordinator      *)
(***************************************************************************)

\* The CCO addresses the host registers: three relays in the window and one
\* outside it at one address, and one relay in the window at a second address
CcoAddresses ==
    { [processor |-> 1, link |-> 1, address |-> 1, button |-> b] :
        b \in {1, 2, 8, 9} }
    \cup { [processor |-> 1, link |-> 1, address |-> 2, button |-> 1] }

\* The devices the host registers: relay 2 of the first address and the relay
\* of the second address are wired in reverse
CcoDevices ==
    { [address |-> a,
       inverted |-> (a.button = 2 \/ a.address = 2)] : a \in CcoAddresses }

\* LED vectors: the vector of the tests, a vector with the digits 0..3 at the
\* window positions of the offsets used here, and a short vector
LedTest == <<0,0,0,0,0,0,0,0,0,2,2,2,1,1,2,1,1,0,0,0,0,0,0,0>>
LedMixed == <<1,3,0,0,0,0,0,2,2,1,1,1,1,1,0,0,3,1,0,0,0,0,0,2>>
LedShort == <<1,0,1,1,1,1,1,1,1,1>>

\* KLS updates: the address text as received, the processor/link/address it
\* denotes (<<>> if none) and the LED vector
KlsInputs ==
    { [address |-> <<"[","0","1",":","0","1",":","0","1","]">>, pla |-> <<1, 1, 1>>, led_states |-> v] :
        v \in {LedTest, LedMixed} }
    \cup { [address |-> <<"1",":","1",":","2">>, pla |-> <<1, 1, 2>>, led_states |-> LedShort],
           [address |-> <<"1",":","1",":","1">>, pla |-> <<1, 1, 1>>, led_states |-> LedShort],
           [address |-> <<"[","0","1",":","0","1","]">>, pla |-> <<>>, led_states |-> LedTest] }

\* Window offsets used here: the default and the largest the options form
\* accepts
WindowOffsets == {CCO_BUTTON_WINDOW_OFFSET, MAX_WINDOW_OFFSET}

InitEngine ==
    /\ TransportIdle
    /\ LifecycleIdle
    /\ WrapperIdle
    /\ ParserIdle
    /\ ClientIdle
    /\ CommandsIdle
    /\ _kls_window_offset \in WindowOffsets
    /\ _cco_devices = EmptyDict
    /\ _cco_states = EmptyDict
    /\ _kls_poll_addresses = {}
    /\ _keypad_led_states = EmptyDict
    /\ notified = 0
    /\ lastOp = [op |-> "init"]
    /\ changed = {}

\* The keys whose cached state differs between two state caches
StateDiff(old, new) ==
    { k \in (DOMAIN old) \cup (DOMAIN new) :
        \/ k \notin DOMAIN old
        \/ k \notin DOMAIN new
        \/ old[k] # new[k] }

\* HomeworksCoordinator.register_cco_device(device)
register_cco_device ==
    \E device \in CcoDevices :
        LET key == unique_key(device.address)
            states == DictSet(_cco_states, key, FALSE)
        IN  /\ _cco_devices' = DictSet(_cco_devices, key, device)
            /\ _cco_states' = states
            /\ _kls_poll_addresses' =
                   _kls_poll_addresses \cup {to_kls_address(device.address)}
            /\ notified' = 0
            /\ lastOp' = [op |-> "register", key |-> key]
            /\ changed' = StateDiff(_cco_states, states)
            /\ UNCHANGED <<_kls_window_offset, _keypad_led_states, parserVars,
                           clientVars, commandVars, transportVars, lifecycleVars, wrapper>>

\* HomeworksCoordinator.unregister_cco_device(address)
unregister_cco_device ==
    \E a \in CcoAddresses :
        LET key == unique_key(a)
            states == DictPop(_cco_states, key)
        IN  /\ _cco_devices' = DictPop(_cco_devices, key)
            /\ _cco_states' = states
            /\ notified' = 0
            /\ lastOp' = [op |-> "unregister", key |-> key]
            /\ changed' = StateDiff(_cco_states, states)
            /\ UNCHANGED <<_kls_window_offset, _kls_poll_addresses,
                           _keypad_led_states, parserVars,
                           clientVars, commandVars, transportVars, lifecycleVars, wrapper>>

\* The first lines of _handle_kls_update for each update used here: the
\* normalized address, whether parsing it fails, and the processor, link and
\* address parsed out of it
KlsParsed ==
    [in \in KlsInputs |->
        LET normalized == normalize_address(in.address)
            fails == KlsAddressFails(normalized)
        IN  [normalized |-> normalized,
             fails |-> fails,
             pla |-> IF fails THEN <<>> ELSE KlsAddressInts(normalized)]]

\* HomeworksCoordinator._handle_kls_update(address, led_states)
_handle_kls_update ==
    \E in \in KlsInputs :
        LET normalized == KlsParsed[in].normalized
            fails == KlsParsed[in].fails
            pla == KlsParsed[in].pla
            keys == IF fails THEN {}
                    ELSE KlsChangedKeys(_cco_devices, _cco_states, pla,
                                        _kls_window_offset, in.led_states)
            states == [k \in (DOMAIN _cco_states) \cup keys |->
                          IF k \in keys
                          THEN KlsNewState(_cco_devices[k], _kls_window_offset,
                                           in.led_states)
                          ELSE _cco_states[k]]
        IN  /\ _keypad_led_states' =
                   DictSet(_keypad_led_states, normalized, in.led_states)
            /\ _cco_states' = states
            /\ notified' = KlsNotifications(keys)
            /\ lastOp' = [op |-> "kls", in |-> in]
            /\ changed' = StateDiff(_cco_states, states)
            /\ UNCHANGED <<_kls_window_offset, _cco_devices,
                           _kls_poll_addresses, parserVars,
                           clientVars, commandVars, transportVars, lifecycleVars, wrapper>>

\* HomeworksCoordinator.get_cco_state(address)
get_cco_state(a) ==
    IF unique_key(a) \in DOMAIN _cco_states THEN _cco_states[unique_key(a)]
    ELSE FALSE

\* The addresses the host sends relay commands to
CommandAddresses == { a \in CcoAddresses : a.button = 1 }

\* The lines of async_cco_close / async_cco_open writing the cache entry
\* whatever the client's command returned
CcoCommandDone_ignores_result(name, a, result, value) ==
    LET states == DictSet(_cco_states, unique_key(a), value)
    IN  /\ _cco_states' = states
        /\ notified' = IF result THEN 1 ELSE 0
        /\ lastOp' = [op |-> name, result |-> result, key |-> unique_key(a)]
        /\ changed' = StateDiff(_cco_states, states)

\* The lines of async_cco_close / async_cco_open after the client's command
\* has returned `result` (False also when there is no client): on success the
\* cache entry of the address is set to `value` and the listeners are notified
CcoCommandDone(name, a, result, value) ==
    LET states == IF result THEN DictSet(_cco_states, unique_key(a), value)
                  ELSE _cco_states
    IN  /\ _cco_states' = states
        /\ notified' = IF result THEN 1 ELSE 0
        /\ lastOp' = [op |-> name, result |-> result, key |-> unique_key(a)]
        /\ changed' = StateDiff(_cco_states, states)

\* variables no CCO command method touches
CcoCommandFrame ==
    UNCHANGED <<_kls_window_offset, _cco_devices, _kls_poll_addresses,
                _keypad_led_states, parserVars, clientVars, commandVars,
                transportVars, lifecycleVars, wrapper>>

\* HomeworksCoordinator.async_cco_close(address)
async_cco_close ==
    \E a \in CommandAddresses, result \in BOOLEAN :
        /\ CcoCommandDone("cco_close", a, result, TRUE)
        /\ CcoCommandFrame

\* HomeworksCoordinator.async_cco_open(address)
async_cco_open ==
    \E a \in CommandAddresses, result \in BOOLEAN :
        /\ CcoCommandDone("cco_open", a, result, FALSE)
        /\ CcoCommandFrame

NextEngine ==
    \/ register_cco_device
    \/ unregister_cco_device
    \/ _handle_kls_update
    \/ async_cco_close
    \/ async_cco_open

SpecEngine == InitEngine /\ [][NextEngine]_vars

\* C11: no command method writes the state cache: a step of async_cco_close or
\* async_cco_open, successful or not, changes no cached state
C11_CommandsLeaveCache ==
    lastOp.op \in {"cco_close", "cco_open"} => changed = {}

\* C13: register_cco_device(device) stores the device under its unique_key
\* (adding at most that registry entry and touching no other), sets its cached
\* state to false and puts [pp:ll:aa] into the polling set, adding nothing
\* else to it: devices that differ only in button share one polling entry
C13_RegisterEffect ==
    [][lastOp'.op = "register" =>
          LET key == lastOp'.key
              text == <<"[", "0", Digits[key[1] + 1], ":",
                             "0", Digits[key[2] + 1], ":",
                             "0", Digits[key[3] + 1], "]">>
          IN  /\ DOMAIN _cco_devices' = (DOMAIN _cco_devices) \cup {key}
              /\ <<_cco_devices'[key].address.processor,
                    _cco_devices'[key].address.link,
                    _cco_devices'[key].address.address,
                    _cco_devices'[key].address.button>> = key
              /\ \A k \in (DOMAIN _cco_devices) \ {key} :
                     _cco_devices'[k] = _cco_devices[k]
              /\ key \in DOMAIN _cco_states' /\ _cco_states'[key] = FALSE
              /\ _kls_poll_addresses' = _kls_poll_addresses \cup {text}]_vars

\* C13 witness: three relays of one address are registered, the third just
\* now, and the polling set holds the one entry of that address
C13_Witness ==
    /\ lastOp.op = "register"
    /\ Cardinality(DOMAIN _cco_devices) = 3
    /\ \A k \in DOMAIN _cco_devices : <<k[1], k[2], k[3]>> = <<1, 1, 1>>
    /\ _kls_poll_addresses = {<<"[","0","1",":","0","1",":","0","1","]">>}
    /\ \A k \in DOMAIN _cco_devices : ~_cco_states[k]

\* C14: a KLS update leaves the cached state of a device unchanged when the
\* device's processor/link/address differs from the update's, when its button
\* is outside 1..8, or when its index window_offset + (button - 1) is not
\* within 0 <= index < length; it never adds or removes registry entries
C14_KlsFrame ==
    [][lastOp'.op = "kls" =>
          /\ _cco_devices' = _cco_devices
          /\ \A a \in CcoAddresses :
                 LET index == _kls_window_offset + (a.button - 1)
                 IN  (\/ lastOp'.in.pla # <<a.processor, a.link, a.address>>
                      \/ a.button \notin 1..8
                      \/ ~(0 <= index /\ index < Len(lastOp'.in.led_states)))
                     => /\ get_cco_state(a)' = get_cco_state(a)
                        /\ (unique_key(a) \in DOMAIN _cco_states')
                               = (unique_key(a) \in DOMAIN _cco_states)]_vars

\* C14 witness: a short KLS update for address 1:1:1 has just changed relay 1
\* while relay 2 (index beyond the vector), the device on button 9 and the
\* closed relay of address 1:1:2 are registered
C14_Witness ==
    /\ lastOp.op = "kls"
    /\ lastOp.in.pla = <<1, 1, 1>>
    /\ Len(lastOp.in.led_states) < KLS_LEN
    /\ changed = {<<1, 1, 1, 1>>}
    /\ {<<1, 1, 1, 2>>, <<1, 1, 1, 9>>, <<1, 1, 2, 1>>} \subseteq DOMAIN _cco_devices
    /\ _cco_states[<<1, 1, 2, 1>>]

\* The step is a KLS update for the processor/link/address of `key`
KlsStepAt(key) ==
    /\ lastOp'.op = "kls"
    /\ lastOp'.in.pla = <<key[1], key[2], key[3]>>

\* C12: the cached state of a registered device is false from its
\* registration until a KLS update for its address is processed (false right
\* after register, and a step other than such a KLS update leaves a false
\* state of a registered device false), and get_cco_state of an address that
\* is not registered is false
C12_FalseUntilKls ==
    /\ [](\A a \in CcoAddresses :
            unique_key(a) \notin DOMAIN _cco_devices => get_cco_state(a) = FALSE)
    /\ [][\A a \in CcoAddresses :
            LET key == unique_key(a) IN
            /\ (lastOp'.op = "register" /\ lastOp'.key = key)
                   => get_cco_state(a)' = FALSE
            /\ ( /\ key \in DOMAIN _cco_devices
                 /\ key \in DOMAIN _cco_devices'
                 /\ get_cco_state(a) = FALSE
                 /\ ~KlsStepAt(key) )
                   => get_cco_state(a)' = FALSE]_vars

\* C2: after a KLS update is processed, every registered device at the
\* update's processor/link/address whose button is in 1..8 and whose index
\* offset + (button - 1) is within the vector has the cached state
\* (digit at index = 1), negated when the device is inverted.
C2_KlsDerivesState ==
    lastOp.op = "kls" =>
        \A key \in DOMAIN _cco_devices :
            LET index == _kls_window_offset + (key[4] - 1) IN
            ( /\ <<key[1], key[2], key[3]>> = lastOp.in.pla
              /\ key[4] \in 1..8
              /\ index \in 0..(Len(lastOp.in.led_states) - 1) )
            => /\ key \in DOMAIN _cco_states
               /\ _cco_states[key] =
                    ((lastOp.in.led_states[index + 1] = 1)
                        # _cco_devices[key].inverted)

\* C2 witness: a KLS update has just turned an inverted device off on digit 1
\* and a plain device at the same address on
C2_Witness ==
    /\ lastOp.op = "kls"
    /\ \E k1, k2 \in changed :
          /\ k1 \in DOMAIN _cco_devices /\ k2 \in DOMAIN _cco_devices
          /\ _cco_devices[k1].inverted /\ ~_cco_devices[k2].inverted
          /\ _cco_states[k2] /\ ~_cco_states[k1]
          /\ lastOp.in.led_states[_kls_window_offset + k1[4]] = 1

\* C3: a processed KLS update makes exactly one change notification when it
\* changed the cached state of at least one device and none when it changed
\* none, however many devices changed.
C3_OneNotification ==
    lastOp.op = "kls" => notified = (IF changed # {} THEN 1 ELSE 0)

\* C3 witness: one KLS update changed three devices and notified once
C3_Witness ==
    /\ lastOp.op = "kls"
    /\ Cardinality(changed) = 3
    /\ notified = 1

(***************************************************************************)
(* The async HomeworksClient: its read loop _run, the transport it drives  *)
(* and the host's start() and stop().  The loop is a task that runs        *)
(* without interruption from one await to the next; runPc names the await  *)
(* at which it is suspended.  A call on a transport that has no socket     *)
(* returns without suspending; it is still taken as a step of its own.     *)
(* The message and reconnect counters and the timestamps are left out.     *)
(***************************************************************************)

\* Consecutive connect failures the network is allowed to produce
MaxFails == 8

\* Largest parser buffer the network is allowed to leave behind
MaxBuf == 1

MinOf(a, b) == IF a < b THEN a ELSE b

\* _subscribe enabling keypad LED monitoring before the prompt is turned off
SubscribeCommands_klmon_first == <<"KLMON", "PROMPTOFF", "KBMON", "GSMON", "DLMON">>

\* The commands _subscribe writes, in its order
SubscribeCommands == <<"PROMPTOFF", "KBMON", "GSMON", "DLMON", "KLMON">>

\* The loop suspended in the write of the i-th subscription command
SubPcs == <<"sub1", "sub2", "sub3", "sub4", "sub5">>

\* Host tasks calling the wrapper's command methods
Tasks == {"t1", "t2"}

\* What a read on the socket may return
Chunks ==
    { <<"x">>,
      <<"\r", "\n">>,
      <<"x", "\r", "\n", "y", "\r", "\n">> }

\* HomeworksTransport.connected
connected == _connected /\ sockOpen

\* The write log entry of a write made by task `by` while `holder` has the
\* command lock
WriteEntry(by, holder) ==
    [by |-> by,
     locked |-> (holder = by),
     inDelay |-> (\E t \in Tasks : t # by /\ cmdPc[t] = "delay")]

\* The for-loop over the parsed messages breaking at the first callback error
DispatchBatch_abort(messages, raises) ==
    IF raises = {} THEN messages
    ELSE SubSeq(messages, 1, CHOOSE i \in raises : \A j \in raises : i <= j)

\* The for-loop over the parsed messages handing them over last first
DispatchBatch_reversed(messages, raises) ==
    [i \in 1..Len(messages) |-> messages[Len(messages) + 1 - i]]

\* The for-loop over the parsed messages in _run: the messages handed to the
\* callback, which raises at the positions in `raises`; the exception is
\* caught and logged and the loop goes on with the next message
RECURSIVE DispatchFrom(_, _, _, _)
DispatchFrom(messages, i, raises, handed) ==
    IF i > Len(messages) THEN handed
    ELSE IF i \in raises
         THEN DispatchFrom(messages, i + 1, raises, Append(handed, messages[i]))
         ELSE DispatchFrom(messages, i + 1, raises, Append(handed, messages[i]))

DispatchBatch(messages, raises) == DispatchFrom(messages, 1, raises, <<>>)

InitClient ==
    /\ TransportIdle
    /\ LifecycleIdle
    /\ WrapperIdle
    /\ ParserIdle
    /\ EngineIdle
    /\ CommandsIdle
    /\ _running = FALSE
    /\ _read_task = "none"
    /\ runPc = "start"
    /\ sockOpen = FALSE
    /\ _connected = FALSE
    /\ _reconnect_delay = RECONNECT_DELAY_MIN
    /\ hasCreds \in BOOLEAN
    /\ subWritten = <<>>
    /\ readIssued = FALSE
    /\ conns = 0
    /\ failCount = 0
    /\ failTotal = 0
    /\ lastAct = [op |-> "init"]
    /\ stopPc = "idle"
    /\ stopResult = "none"

\* `while self._running` and `if not self._transport.connected` at the head of
\* the loop, up to the next await; conn is transport.connected at that point
LoopHead(conn) ==
    /\ _read_task' = IF _running THEN "alive" ELSE "finished"
    /\ runPc' = IF ~_running THEN "exit" ELSE IF conn THEN "read" ELSE "open"
    /\ readIssued' = (readIssued \/ (_running /\ conn))

\* `except HomeworksException` in _run: a failed connect attempt
ConnectFailed ==
    /\ failTotal < MaxFails
    /\ failCount' = failCount + 1
    /\ failTotal' = failTotal + 1
    /\ IF _running
       THEN /\ runPc' = "backoff"
            /\ _read_task' = _read_task
            /\ lastAct' = [op |-> "backoff", slept |-> _reconnect_delay]
       ELSE /\ runPc' = "exit"
            /\ _read_task' = "finished"
            /\ lastAct' = [op |-> "step"]

\* `except HomeworksConnectionLost` in _run
ConnectionLost ==
    /\ buffer' = reset(buffer)
    /\ sockOpen' = FALSE
    /\ _connected' = FALSE
    /\ IF _running
       THEN runPc' = "lost_sleep" /\ _read_task' = _read_task
       ELSE runPc' = "exit" /\ _read_task' = "finished"

\* variables no step of the client touches, whatever its callback
ReadFrame == UNCHANGED <<stream, pos, out, lastRet, engineVars, hasCreds,
                          transportVars, lifecycleVars,
                          _command_lock, cmdPc, cmdsLeft>>

\* variables no step of the client touches when no wrapper is its callback
ClientFrame == ReadFrame /\ UNCHANGED wrapper

\* The read task is scheduled for the first time
RunStart ==
    /\ _read_task = "alive" /\ runPc = "start"
    /\ LoopHead(connected)
    /\ lastAct' = [op |-> "step"]
    /\ ClientFrame
    /\ UNCHANGED <<buffer, _running, sockOpen, _connected, _reconnect_delay,
                   subWritten, conns, failCount, failTotal, stopPc, stopResult, lastWrite>>

\* transport.connect: open_connection succeeds
OpenOk ==
    /\ _read_task = "alive" /\ runPc = "open"
    /\ sockOpen' = TRUE
    /\ subWritten' = <<>>
    /\ readIssued' = FALSE
    /\ conns' = MinOf(conns + 1, 2)
    /\ runPc' = "prompt_wait"
    /\ lastAct' = [op |-> "step"]
    /\ ClientFrame
    /\ UNCHANGED <<buffer, _running, _read_task, _connected, _reconnect_delay,
                   failCount, failTotal, stopPc, stopResult, lastWrite>>

\* transport.connect: open_connection times out or fails
OpenFail ==
    /\ _read_task = "alive" /\ runPc = "open"
    /\ ConnectFailed
    /\ ClientFrame
    /\ UNCHANGED <<buffer, _running, sockOpen, _connected, _reconnect_delay,
                   subWritten, readIssued, conns, stopPc, stopResult, lastWrite>>

\* transport.connect: the wait for a login prompt is over
PromptWait ==
    /\ _read_task = "alive" /\ runPc = "prompt_wait"
    /\ runPc' = "initial_read"
    /\ lastAct' = [op |-> "step"]
    /\ ClientFrame
    /\ UNCHANGED <<buffer, _running, _read_task, sockOpen, _connected,
                   _reconnect_delay, subWritten, readIssued, conns, failCount, failTotal,
                   stopPc, stopResult, lastWrite>>

\* transport.connect: the first read shows no login prompt (other bytes, none
\* within the timeout, end of stream, or no socket any more); connect() returns
\* and _subscribe begins
InitialNoPrompt ==
    /\ _read_task = "alive" /\ runPc = "initial_read"
    /\ _connected' = TRUE
    /\ failCount' = 0
    /\ failTotal' = 0
    /\ runPc' = SubPcs[1]
    /\ lastAct' = [op |-> "step"]
    /\ ClientFrame
    /\ UNCHANGED <<buffer, _running, _read_task, sockOpen, _reconnect_delay,
                   subWritten, readIssued, conns, stopPc, stopResult, lastWrite>>

\* transport.connect: the first read shows "LOGIN: " and credentials are set
LoginPrompt ==
    /\ _read_task = "alive" /\ runPc = "initial_read"
    /\ sockOpen /\ hasCreds
    /\ runPc' = "login_write"
    /\ lastAct' = [op |-> "step"]
    /\ ClientFrame
    /\ UNCHANGED <<buffer, _running, _read_task, sockOpen, _connected,
                   _reconnect_delay, subWritten, readIssued, conns, failCount, failTotal,
                   stopPc, stopResult, lastWrite>>

\* transport._handle_login: "LOGIN: " but no credentials; the socket is kept
LoginNoCredentials ==
    /\ _read_task = "alive" /\ runPc = "initial_read"
    /\ sockOpen /\ ~hasCreds
    /\ ConnectFailed
    /\ ClientFrame
    /\ UNCHANGED <<buffer, _running, sockOpen, _connected, _reconnect_delay,
                   subWritten, readIssued, conns, stopPc, stopResult, lastWrite>>

\* transport._handle_login: write(credentials); ok tells whether drain() passed
LoginWrite ==
    /\ _read_task = "alive" /\ runPc = "login_write"
    /\ \E ok \in BOOLEAN :
        /\ IF sockOpen
           THEN /\ lastWrite' = WriteEntry("run", _command_lock)
                /\ sockOpen' = ok
                /\ _connected' = (ok /\ _connected)
           ELSE UNCHANGED <<lastWrite, sockOpen, _connected>>
    /\ runPc' = "login_response"
    /\ lastAct' = [op |-> "step"]
    /\ ClientFrame
    /\ UNCHANGED <<buffer, _running, _read_task, _reconnect_delay, subWritten,
                   readIssued, conns, failCount, failTotal, stopPc, stopResult>>

\* transport._handle_login: the response is not "login incorrect"; connect()
\* returns and _subscribe begins
LoginAccepted ==
    /\ _read_task = "alive" /\ runPc = "login_response"
    /\ _connected' = TRUE
    /\ failCount' = 0
    /\ failTotal' = 0
    /\ runPc' = SubPcs[1]
    /\ lastAct' = [op |-> "step"]
    /\ ClientFrame
    /\ UNCHANGED <<buffer, _running, _read_task, sockOpen, _reconnect_delay,
                   subWritten, readIssued, conns, stopPc, stopResult, lastWrite>>

\* transport._handle_login: "login incorrect"; the socket is kept
LoginIncorrect ==
    /\ _read_task = "alive" /\ runPc = "login_response"
    /\ sockOpen
    /\ ConnectFailed
    /\ ClientFrame
    /\ UNCHANGED <<buffer, _running, sockOpen, _connected, _reconnect_delay,
                   subWritten, readIssued, conns, stopPc, stopResult, lastWrite>>

\* transport._read_available inside connect(): the socket was reset; the
\* OSError is neither a timeout nor a HomeworksException and leaves _run
ConnectReset ==
    /\ _read_task = "alive" /\ runPc \in {"initial_read", "login_response"}
    /\ sockOpen
    /\ _read_task' = "crashed"
    /\ lastAct' = [op |-> "crash"]
    /\ ClientFrame
    /\ UNCHANGED <<buffer, _running, runPc, sockOpen, _connected,
                   _reconnect_delay, subWritten, readIssued, conns, failCount, failTotal,
                   stopPc, stopResult, lastWrite>>

\* _subscribe: the i-th write; ok tells whether drain() passed.  After the
\* fifth the delay is reset and transport.read is called
SubscribeWrite ==
    /\ _read_task = "alive"
    /\ \E i \in 1..Len(SubPcs), ok \in BOOLEAN :
        LET open == sockOpen /\ ok IN
        /\ runPc = SubPcs[i]
        /\ IF sockOpen
           THEN /\ lastWrite' = WriteEntry("run", _command_lock)
                /\ subWritten' = Append(subWritten, SubscribeCommands[i])
           ELSE UNCHANGED <<lastWrite, subWritten>>
        /\ IF i < Len(SubPcs)
           THEN /\ runPc' = SubPcs[i + 1]
                /\ sockOpen' = open
                /\ _connected' = (open /\ _connected)
                /\ UNCHANGED <<buffer, _read_task, _reconnect_delay, readIssued>>
           ELSE /\ _reconnect_delay' = RECONNECT_DELAY_MIN
                /\ IF open
                   THEN /\ runPc' = "read"
                        /\ readIssued' = TRUE
                        /\ UNCHANGED <<buffer, _read_task, sockOpen, _connected>>
                   ELSE /\ ConnectionLost
                        /\ UNCHANGED readIssued
    /\ lastAct' = [op |-> "step"]
    /\ ClientFrame
    /\ UNCHANGED <<_running, conns, failCount, failTotal, stopPc, stopResult>>

\* transport.read returns bytes: feed() and the dispatch of its messages
ReadDataBody ==
    /\ _read_task = "alive" /\ runPc = "read" /\ sockOpen
    /\ \E data \in Chunks :
        LET r == feed(buffer, data) IN
        /\ Len(r.buffer) <= MaxBuf
        /\ buffer' = r.buffer
        /\ \E raises \in SUBSET (1..Len(r.messages)) :
             lastAct' = [op |-> "batch", batch |-> r.messages,
                         dispatched |-> DispatchBatch(r.messages, raises),
                         raisedAt |-> raises]
    /\ LoopHead(connected)
    /\ ReadFrame
    /\ UNCHANGED <<_running, sockOpen, _connected, _reconnect_delay, subWritten,
                   conns, failCount, failTotal, stopPc, stopResult, lastWrite>>

\* transport.read returns bytes, with a callback that keeps no state of its own
ReadData ==
    /\ ReadDataBody
    /\ UNCHANGED wrapper

\* transport.read times out and returns no bytes
ReadTimeout ==
    /\ _read_task = "alive" /\ runPc = "read" /\ sockOpen
    /\ LoopHead(connected)
    /\ lastAct' = [op |-> "step"]
    /\ ClientFrame
    /\ UNCHANGED <<buffer, _running, sockOpen, _connected, _reconnect_delay,
                   subWritten, conns, failCount, failTotal, stopPc, stopResult, lastWrite>>

\* transport.read reaches the end of the stream (the controller closed, or the
\* transport was closed under the read)
ReadEof ==
    /\ _read_task = "alive" /\ runPc = "read"
    /\ ConnectionLost
    /\ lastAct' = [op |-> "lost"]
    /\ ClientFrame
    /\ UNCHANGED <<_running, _reconnect_delay, subWritten, readIssued, conns,
                   failCount, failTotal, stopPc, stopResult, lastWrite>>

\* transport.read: the socket was reset; the OSError is not caught by read()
\* nor by _run and ends the read task
ReadReset ==
    /\ _read_task = "alive" /\ runPc = "read" /\ sockOpen
    /\ _read_task' = "crashed"
    /\ lastAct' = [op |-> "crash"]
    /\ ClientFrame
    /\ UNCHANGED <<buffer, _running, runPc, sockOpen, _connected,
                   _reconnect_delay, subWritten, readIssued, conns, failCount, failTotal,
                   stopPc, stopResult, lastWrite>>

\* The sleep after a failed connect attempt is over: the delay is raised
BackoffDone ==
    /\ _read_task = "alive" /\ runPc = "backoff"
    /\ _reconnect_delay' =
           MinOf(_reconnect_delay * RECONNECT_DELAY_MULTIPLIER, RECONNECT_DELAY_MAX)
    /\ LoopHead(connected)
    /\ lastAct' = [op |-> "step"]
    /\ ClientFrame
    /\ UNCHANGED <<buffer, _running, sockOpen, _connected, subWritten, conns,
                   failCount, failTotal, stopPc, stopResult, lastWrite>>

\* The sleep after a lost connection is over
LostSleepDone ==
    /\ _read_task = "alive" /\ runPc = "lost_sleep"
    /\ LoopHead(connected)
    /\ lastAct' = [op |-> "step"]
    /\ ClientFrame
    /\ UNCHANGED <<buffer, _running, sockOpen, _connected, _reconnect_delay,
                   subWritten, conns, failCount, failTotal, stopPc, stopResult, lastWrite>>

\* The CancelledError of stop() reaches the read task at its await
RunCancelled ==
    /\ _read_task = "cancelling"
    /\ _read_task' = "cancelled"
    /\ lastAct' = [op |-> "step"]
    /\ ClientFrame
    /\ UNCHANGED <<buffer, _running, runPc, sockOpen, _connected,
                   _reconnect_delay, subWritten, readIssued, conns, failCount, failTotal,
                   stopPc, stopResult, lastWrite>>

\* HomeworksClient.start()
start ==
    /\ stopPc = "idle"
    /\ IF _running
       THEN UNCHANGED <<_running, _read_task, runPc, failCount, failTotal>>
       ELSE /\ _running' = TRUE
            /\ _read_task' = "alive"
            /\ runPc' = "start"
            /\ failCount' = 0
    /\ lastAct' = [op |-> "start"]
    /\ ClientFrame
    /\ UNCHANGED <<buffer, sockOpen, _connected, _reconnect_delay, subWritten,
                   readIssued, conns, failTotal, stopPc, stopResult, lastWrite>>

\* HomeworksClient.stop() up to its return, its exception or `await task`
stop ==
    /\ stopPc = "idle"
    /\ _running' = FALSE
    /\ CASE _read_task = "none" ->
              /\ sockOpen' = FALSE
              /\ _connected' = FALSE
              /\ stopResult' = "returned"
              /\ lastAct' = [op |-> "stop"]
              /\ UNCHANGED <<_read_task, stopPc>>
         [] _read_task = "alive" ->
              /\ _read_task' = "cancelling"
              /\ stopPc' = "await_task"
              /\ stopResult' = "none"
              /\ lastAct' = [op |-> "step"]
              /\ UNCHANGED <<sockOpen, _connected>>
         [] OTHER ->
              /\ stopResult' = IF _read_task = "crashed" THEN "raised" ELSE "returned"
              /\ lastAct' = [op |-> "stop"]
              /\ IF _read_task = "crashed"
                 THEN UNCHANGED <<_read_task, sockOpen, _connected>>
                 ELSE _read_task' = "none" /\ sockOpen' = FALSE /\ _connected' = FALSE
              /\ UNCHANGED stopPc
    /\ ClientFrame
    /\ UNCHANGED <<buffer, runPc, _reconnect_delay, subWritten, readIssued,
                   conns, failCount, failTotal, lastWrite>>

\* stop() after the cancelled read task has ended: it clears the task and
\* closes the transport
stop_resume ==
    /\ stopPc = "await_task" /\ _read_task = "cancelled"
    /\ _read_task' = "none"
    /\ sockOpen' = FALSE
    /\ _connected' = FALSE
    /\ stopPc' = "idle"
    /\ stopResult' = "returned"
    /\ lastAct' = [op |-> "stop"]
    /\ ClientFrame
    /\ UNCHANGED <<buffer, _running, runPc, _reconnect_delay, subWritten,
                   readIssued, conns, failCount, failTotal, lastWrite>>

NextClient ==
    \/ start \/ stop \/ stop_resume
    \/ RunStart \/ OpenOk \/ OpenFail \/ PromptWait
    \/ InitialNoPrompt \/ LoginPrompt \/ LoginNoCredentials
    \/ LoginWrite \/ LoginAccepted \/ LoginIncorrect \/ ConnectReset
    \/ SubscribeWrite
    \/ ReadData \/ ReadTimeout \/ ReadEof \/ ReadReset
    \/ BackoffDone \/ LostSleepDone \/ RunCancelled

SpecClient == InitClient /\ [][NextClient]_vars

\* C4: the delay slept after the k-th consecutive failed connect attempt is
\* min(2^(k-1), 60) seconds, whether k counts the failures in a row of the
\* running read loop or of the client, and the stored delay is always within
\* 1..60
C4_BackoffSequence ==
    /\ _reconnect_delay \in RECONNECT_DELAY_MIN..RECONNECT_DELAY_MAX
    /\ lastAct.op = "backoff" =>
           \/ lastAct.slept = MinOf(2 ^ (failCount - 1), RECONNECT_DELAY_MAX)
           \/ lastAct.slept = MinOf(2 ^ (failTotal - 1), RECONNECT_DELAY_MAX)

\* C6: while the client is started and stop() has not been called, the read
\* task has not ended
C6_LoopNeverEnds == _running => _read_task = "alive"

\* C7: every stop() call returns normally, and when it has ended the read task
\* is gone and the transport is closed and not connected
C7_StopReturns ==
    lastAct.op = "stop" =>
        /\ stopResult = "returned"
        /\ _read_task = "none"
        /\ ~sockOpen
        /\ ~_connected

\* C8: the messages handed to the callback after a read are exactly the
\* messages the parser returned for it, each once and in the parser's order,
\* and the loop is not at its next read before that
C8_DispatchedOnceInOrder ==
    lastAct.op = "batch" =>
        /\ Len(lastAct.dispatched) = Len(lastAct.batch)
        /\ \A i \in 1..Len(lastAct.batch) : lastAct.dispatched[i] = lastAct.batch[i]

C8_Witness ==
    /\ lastAct.op = "batch"
    /\ Len(lastAct.batch) = 2
    /\ lastAct.batch[1] # lastAct.batch[2]
    /\ lastAct.dispatched = lastAct.batch
    /\ runPc = "read"

\* C9: when the callback raises on a message, the rest of the batch is still
\* handed over, the socket stays open and connected, and the loop is at its
\* next read, not in a sleep nor a connect
C9_CallbackErrorContained ==
    (lastAct.op = "batch" /\ lastAct.raisedAt # {}) =>
        /\ lastAct.dispatched = lastAct.batch
        /\ sockOpen /\ _connected
        /\ _read_task = "alive"
        /\ runPc = "read"

C9_Witness ==
    /\ lastAct.op = "batch"
    /\ lastAct.raisedAt = {1}
    /\ Len(lastAct.dispatched) = 2
    /\ runPc = "read" /\ sockOpen /\ _connected

\* C10: once the loop has issued a read on a socket, the subscription writes
\* made on that socket are PROMPTOFF, KBMON, GSMON, DLMON, KLMON, each once and
\* in this order
C10_SubscribedBeforeRead ==
    readIssued =>
        subWritten = <<"PROMPTOFF", "KBMON", "GSMON", "DLMON", "KLMON">>

C10_Witness ==
    /\ readIssued
    /\ conns = 2
    /\ runPc = "read" /\ _read_task = "alive" /\ sockOpen
    /\ Len(subWritten) = 5

\* C31: at most one socket is open per transport: whenever connect() opens a
\* socket, the socket an earlier connect() opened has been closed
C31_OneSocket ==
    [][(runPc = "open" /\ runPc' = "prompt_wait") => ~sockOpen]_vars


(***************************************************************************)
(* The command methods of the Home Assistant wrapper, called by host tasks *)
(* while the read loop of the wrapped client runs: each takes              *)
(* _command_lock, has the wrapped client write one command, sleeps         *)
(* command_delay and releases the lock.                                    *)
(***************************************************************************)

\* Commands the host issues
MaxCmds == 2

InitCommands ==
    /\ TransportIdle
    /\ LifecycleIdle
    /\ WrapperIdle
    /\ ParserIdle
    /\ EngineIdle
    /\ ClientIdle
    /\ _command_lock = "free"
    /\ cmdPc = [t \in Tasks |-> "idle"]
    /\ cmdsLeft = MaxCmds
    /\ lastWrite = [by |-> "none"]

\* variables no step of a command method touches
CommandFrame == UNCHANGED <<parserVars, engineVars, transportVars,
                             lifecycleVars, wrapper,
                             _running, _read_task, runPc,
                             _reconnect_delay, hasCreds, subWritten, readIssued,
                             conns, failCount, failTotal, stopPc, stopResult>>

\* The body of a command method once task t holds the lock, up to the sleep:
\* the wrapped client's transport.write; ok tells whether drain() passed
CommandWrite(t, ok) ==
    /\ _command_lock' = t
    /\ cmdPc' = [cmdPc EXCEPT ![t] = IF sockOpen THEN "delay" ELSE "delay_unsent"]
    /\ IF sockOpen
       THEN /\ lastWrite' = WriteEntry(t, t)
            /\ sockOpen' = ok
            /\ _connected' = (ok /\ _connected)
       ELSE UNCHANGED <<lastWrite, sockOpen, _connected>>
    /\ lastAct' = [op |-> "command"]

\* A host task calls a command method: it takes the lock if it is free and
\* nobody waits for it, and waits for it otherwise
command_call ==
    \E t \in Tasks :
        /\ cmdPc[t] = "idle"
        /\ cmdsLeft > 0
        /\ cmdsLeft' = cmdsLeft - 1
        /\ IF _command_lock = "free" /\ \A u \in Tasks : cmdPc[u] # "waiting"
           THEN \E ok \in BOOLEAN : CommandWrite(t, ok)
           ELSE /\ cmdPc' = [cmdPc EXCEPT ![t] = "waiting"]
                /\ lastAct' = [op |-> "command"]
                /\ UNCHANGED <<_command_lock, lastWrite, sockOpen, _connected>>
        /\ CommandFrame

\* A waiting host task is given the released lock
command_acquire ==
    \E t \in Tasks, ok \in BOOLEAN :
        /\ cmdPc[t] = "waiting"
        /\ _command_lock = "free"
        /\ CommandWrite(t, ok)
        /\ UNCHANGED cmdsLeft
        /\ CommandFrame

\* The command delay of a host task is over: it releases the lock and returns
command_done ==
    \E t \in Tasks :
        /\ cmdPc[t] \in {"delay", "delay_unsent"}
        /\ _command_lock' = "free"
        /\ cmdPc' = [cmdPc EXCEPT ![t] = "idle"]
        /\ lastAct' = [op |-> "command"]
        /\ UNCHANGED <<cmdsLeft, lastWrite, sockOpen, _connected>>
        /\ CommandFrame

NextCommands ==
    \/ start \/ RunStart \/ OpenOk \/ PromptWait \/ InitialNoPrompt
    \/ SubscribeWrite \/ ReadTimeout \/ ReadEof \/ LostSleepDone
    \/ command_call \/ command_acquire \/ command_done

SpecCommands == InitCommands /\ [][NextCommands]_vars

\* C5: every write on the transport is made by a task holding the command
\* lock, and none while another task is in the delay after its own write
C5_WritesSerialized ==
    lastWrite.by # "none" => (lastWrite.locked /\ ~lastWrite.inDelay)

(***************************************************************************)
(* Connections lost and made anew: the read loop feeding the parser, host  *)
(* tasks writing commands that may fail and close the transport, and the   *)
(* host stopping and starting the client.                                  *)
(***************************************************************************)

\* transport.read: the transport was closed under the read by a failed
\* write, and the read's timeout expires in the same turn of the event loop
\* as the end of stream arrives: wait_for cancels the read, read() returns
\* b"" and the loop goes on to its head, where the transport is not
\* connected
ReadTimeoutClosed ==
    /\ _read_task = "alive" /\ runPc = "read" /\ ~sockOpen
    /\ LoopHead(connected)
    /\ lastAct' = [op |-> "step"]
    /\ ClientFrame
    /\ UNCHANGED <<buffer, _running, sockOpen, _connected, _reconnect_delay,
                   subWritten, conns, failCount, failTotal, stopPc, stopResult, lastWrite>>

NextReconnect ==
    \/ start \/ stop \/ stop_resume \/ RunCancelled
    \/ RunStart \/ OpenOk \/ PromptWait \/ InitialNoPrompt
    \/ SubscribeWrite
    \/ ReadData \/ ReadTimeout \/ ReadTimeoutClosed \/ ReadEof \/ ReadReset
    \/ LostSleepDone
    \/ command_call \/ command_acquire \/ command_done

SpecReconnect == InitCommands /\ [][NextReconnect]_vars

\* C30: a connection on which the loop has not read yet finds the parser
\* reset: its buffer holds no byte of an earlier connection, so the first
\* bytes fed from the new connection are not joined to bytes of the old one
C30_NoStaleBytes ==
    (sockOpen /\ ~readIssued) => buffer = <<>>


(***************************************************************************)
(* The parser fed one KLS line at a time: lines whose LED field holds      *)
(* fewer than, exactly and more than 24 digit characters.                  *)
(***************************************************************************)

\* Longest run of digits in the LED field of the lines fed here
MaxLeds == 26

\* n digits 0..3, stepping by k
LedPattern(n, k) == [i \in 1..n |-> Digits[((i * k) % 4) + 1]]

\* LED fields: runs of digits, and runs that follow a letter or a superscript
\* two
KlsLedFields ==
    { LedPattern(n, k) : n \in 1..MaxLeds, k \in 0..3 }
    \cup { <<c>> \o LedPattern(n, 1) : n \in 0..MaxLeds, c \in {"x", "²"} }

\* "KLS, [01:01:01], " before the LED field of a line
KlsLineHead ==
    <<"K","L","S",","," ","[","0","1",":","0","1",":","0","1","]",","," ">>

InitKls ==
    /\ stream \in { KlsLineHead \o field \o CRLF : field \in KlsLedFields }
    /\ pos = 0
    /\ buffer = <<>>
    /\ out = <<>>
    /\ lastRet = <<>>
    /\ EngineIdle
    /\ ClientIdle
    /\ CommandsIdle
    /\ TransportIdle
    /\ LifecycleIdle
    /\ WrapperIdle

\* The read loop hands the whole line to feed() in one call
FeedLine ==
    /\ pos = 0
    /\ LET r == feed(buffer, stream) IN
        /\ buffer' = r.buffer
        /\ lastRet' = r.messages
        /\ out' = out \o r.messages
        /\ pos' = Len(stream)
    /\ UNCHANGED <<stream, engineVars, clientVars, commandVars, transportVars,
                   lifecycleVars, wrapper>>

NextKls == FeedLine

SpecKls == InitKls /\ [][NextKls]_vars

\* The LED field of the line fed, and the digit characters in it
KlsFieldFed == SubSeq(stream, Len(KlsLineHead) + 1, Len(stream) - Len(CRLF))
KlsDigitsFed == SelectSeq(KlsFieldFed, IsDigitStr)

\* C20: a KLS line yields one KLS message with exactly 24 LED states: the
\* digits of the line in their order, cut after the 24th, and 0 where the
\* line has no digit left; the line is never dropped
C20_KlsAlways24 ==
    pos = Len(stream) =>
        /\ Len(lastRet) = 1
        /\ lastRet[1].type = "KLS"
        /\ Len(lastRet[1].led_states) = 24
        /\ \A i \in 1..24 :
               lastRet[1].led_states[i] =
                   IF i <= Len(KlsDigitsFed) THEN DigitVal(KlsDigitsFed[i])
                   ELSE 0

(***************************************************************************)
(* One line per feed() call: every verb of the command table, and verbs    *)
(* outside it, before every list of fields                                 *)
(***************************************************************************)

\* The keys of _PARSERS
CommandKeys ==
    { <<"K","L","S">>, <<"D","L">>, <<"K","E","S">>, <<"G","S","S">>,
      <<"S","V","S">> } \cup { b[1] : b \in ButtonVerbs }

VerbCCI == <<"C","C","I">>

\* The first tokens of the lines: the keys, CCI, a verb the processor never
\* sends, and keys in lower and mixed case
LineVerbs ==
    CommandKeys \cup { VerbCCI, <<"F","O","O">>, <<"k","l","s">>, <<"D","l">> }

AddrCanon == <<"[","0","1",":","0","2",":","0","3","]">>
AddrBare == <<"1",":","2",":","3">>

\* The tokens after the verb
FieldLists == {
    <<>>,
    <<AddrCanon>>,
    <<AddrCanon, <<"5">> >>,
    <<AddrBare, <<"1","5","0">> >>,
    <<AddrCanon, <<"-","1">> >>,
    <<AddrCanon, <<"9","9">> >>,
    <<AddrCanon, <<"x">> >>,
    <<AddrCanon, <<"0","1","2","3">> >>,
    <<AddrCanon, <<"4","4","4">> >>,
    <<AddrCanon, <<"e","n","a","b","l","e","d">> >>,
    <<AddrCanon, <<"d","i","s","a","b","l","e","d">> >>,
    <<AddrCanon, <<"3">>, <<"1">> >>,
    <<AddrCanon, <<"5","xFF">> >> }

TokenLists == { <<v>> \o f : v \in LineVerbs, f \in FieldLists }

CommaSpace == <<",", " ">>

\* Lines that are no token lists: empty, blank, a banner, a banner between
\* blanks, and a token list between blanks
BannerLine == <<"C","C","O"," ","m","o","n","i","t","o","r","i","n","g"," ","e","n","a","b","l","e","d">>
QuietLines == { <<>>, <<" ">>, <<" ", "\t">>, BannerLine, <<" ">> \o BannerLine \o <<" ">> }

InitLines ==
    /\ stream \in
          { Join(toks, CommaSpace) \o CRLF : toks \in TokenLists }
          \cup { <<" ">> \o Join(toks, CommaSpace) \o <<" ">> \o CRLF :
                   toks \in TokenLists }
          \cup { l \o CRLF : l \in QuietLines }
    /\ pos = 0
    /\ buffer = <<>>
    /\ out = <<>>
    /\ lastRet = <<>>
    /\ EngineIdle
    /\ ClientIdle
    /\ CommandsIdle
    /\ TransportIdle
    /\ LifecycleIdle
    /\ WrapperIdle

NextLines == FeedLine

SpecLines == InitLines /\ [][NextLines]_vars

\* The line of token list toks, bare or between blanks, has been fed
LineFed(toks) ==
    /\ pos = Len(stream)
    /\ stream \in { Join(toks, CommaSpace) \o CRLF,
                    <<" ">> \o Join(toks, CommaSpace) \o <<" ">> \o CRLF }

\* C21: every message the parser returns has its values in range: KLS LED
\* states in 0..3, a dimmer level in 0..100, a GRAFIK Eye scene in 0..16
C21_ValueRanges ==
    \A i \in 1..Len(lastRet) :
        /\ lastRet[i].type = "KLS" =>
               \A j \in 1..Len(lastRet[i].led_states) :
                   lastRet[i].led_states[j] \in 0..3
        /\ lastRet[i].type = "DL" => lastRet[i].level \in 0..100
        /\ lastRet[i].type = "GSS" => lastRet[i].scene \in 0..16

\* Some token of the list holds a byte that is not UTF-8
Undecodable(toks) == \E i \in 1..Len(toks) : DecodeFails(toks[i])

WellFormedFields(v) ==
    IF v = <<"K","L","S">> THEN { <<AddrCanon, <<"0","1","2","3">> >> }
    ELSE IF v \in { <<"S","V","S">>, VerbCCI }
    THEN { <<AddrCanon, <<"3">>, <<"1">> >> }
    ELSE IF v = <<"K","E","S">>
    THEN { <<AddrCanon, <<"e","n","a","b","l","e","d">> >>,
           <<AddrCanon, <<"d","i","s","a","b","l","e","d">> >> }
    ELSE { <<AddrCanon, <<"5">> >> }

\* The variant of the Message union each verb parses into
VariantOf(v) ==
    IF v = <<"K","L","S">> THEN "KLS"
    ELSE IF v = <<"D","L">> THEN "DL"
    ELSE IF v = <<"K","E","S">> THEN "KES"
    ELSE IF v = <<"G","S","S">> THEN "GSS"
    ELSE IF v = <<"S","V","S">> THEN "SVS"
    ELSE IF v = VerbCCI THEN "CCI"
    ELSE "Button"

\* C23: a well-formed line of each verb (KLS, DL, the button verbs, KES,
\* GSS, SVS, CCI) yields one message of the verb's variant, with the
\* line's address, and never Unknown
C23_TypedVariants ==
    \A v \in CommandKeys \cup {VerbCCI} : \A f \in WellFormedFields(v) :
        LineFed(<<v>> \o f) =>
            /\ Len(lastRet) = 1
            /\ lastRet[1].type = VariantOf(v)
            /\ lastRet[1].address = AddrCanon

\* The tokens of a line: its pieces between comma-space, each stripped
TokensOf(line) ==
    LET raw == Split(Strip(line), CommaSpace)
    IN  [i \in 1..Len(raw) |-> Strip(raw[i])]

\* A complete line that is malformed: bytes that are not UTF-8, or a known
\* verb with too few fields or with a level, button or scene that is no
\* integer
Malformed(line) ==
    \/ \E i \in 1..Len(line) : line[i] = "xFF"
    \/ /\ Strip(line) # <<>>
       /\ LET parts == TokensOf(line)
              verb == Upper(parts[1])
          IN  /\ verb \in CommandKeys
              /\ \/ Len(parts) < 3
                 \/ verb = <<"S","V","S">> /\ Len(parts) < 4
                 \/ /\ verb \in {<<"D","L">>, <<"G","S","S">>}
                                \cup { b[1] : b \in ButtonVerbs }
                    /\ IntFails(parts[3])

\* The bytes with their malformed complete lines taken out
RECURSIVE WithoutMalformed(_)
WithoutMalformed(bytes) ==
    LET i == Find(bytes, CRLF) IN
    IF i = 0 THEN bytes
    ELSE LET line == SubSeq(bytes, 1, i - 1)
             rest == WithoutMalformed(SubSeq(bytes, i + 2, Len(bytes)))
         IN  IF Malformed(line) THEN rest ELSE line \o CRLF \o rest

\* C24: malformed lines yield nothing and disturb nothing: the messages
\* returned so far, and the partial line kept, are those of a parser fed the
\* same bytes without the malformed lines
C24_MalformedSkipped ==
    LET clean == feed(<<>>, WithoutMalformed(SubSeq(stream, 1, pos)))
    IN  /\ out = clean.messages
        /\ buffer = clean.buffer

\* A line with a scene that is no integer, or a line that begins with an
\* undecodable byte, has been fed ahead of lines that did yield messages
C24_Witness ==
    /\ pos = Len(stream)
    /\ \/ stream = Segments[8] \o Segments[7] /\ Len(out) = 2
       \/ stream = Segments[10] \o Segments[7] /\ Len(out) = 2
       \/ stream = Segments[5] \o Segments[7] /\ Len(out) = 1

(***************************************************************************)
(* The parser fed in chunks and reset between feed() calls                 *)
(***************************************************************************)

\* MessageParser.reset() between two feed() calls; the step records where in
\* the stream it fell and the partial line it threw away, and the messages
\* are collected anew
ResetParser ==
    /\ pos < Len(stream)
    /\ buffer' = reset(buffer)
    /\ out' = <<>>
    /\ lastRet' = <<>>
    /\ lastAct' = [op |-> "reset", at |-> pos, dropped |-> buffer]
    /\ UNCHANGED <<stream, pos, engineVars, _running, _read_task, runPc,
                   sockOpen, _connected, _reconnect_delay, hasCreds,
                   subWritten, readIssued, conns, failCount, failTotal,
                   stopPc, stopResult, commandVars, transportVars,
                   lifecycleVars, wrapper>>

NextReset == FeedChunk \/ ResetParser

SpecReset == InitParser /\ [][NextReset]_vars

\* C25: after reset() the buffer is empty and the bytes fed before it take
\* no part in what follows: the messages returned since the reset, and the
\* partial line kept, are those of a fresh parser fed the bytes that came
\* after the reset
C25_ResetForgets ==
    lastAct.op = "reset" =>
        LET fresh == feed(<<>>, SubSeq(stream, lastAct.at + 1, pos))
        IN  /\ out = fresh.messages
            /\ buffer = fresh.buffer

\* A reset threw a partial line away, and a complete line fed after it has
\* yielded a message
C25_Witness ==
    /\ lastAct.op = "reset"
    /\ lastAct.dropped # <<>>
    /\ pos > lastAct.at
    /\ out # <<>>

(***************************************************************************)
(* The window accessors of a KLS vector, called on their own               *)
(***************************************************************************)

\* get_cco_state with the button taken as the 0-based index into the window
KLSState_get_cco_state_onebased(led_states, button, window_offset) ==
    IF ~(1 <= button /\ button <= CCO_BUTTON_WINDOW_LENGTH) THEN FALSE
    ELSE LET index == window_offset + button IN
         IF index >= Len(led_states) THEN FALSE
         ELSE ListAt(led_states, index) = 1

\* KLSState.get_cco_state(button, window_offset) on the vector led_states
KLSState_get_cco_state(led_states, button, window_offset) ==
    IF ~(1 <= button /\ button <= CCO_BUTTON_WINDOW_LENGTH) THEN FALSE
    ELSE LET index == window_offset + (button - 1) IN
         IF index >= Len(led_states) THEN FALSE
         ELSE ListAt(led_states, index) = 1

\* KLSMessage.get_cco_relay_state(relay, window_offset)
KLSMessage_get_cco_relay_state(led_states, relay, window_offset) ==
    IF ~(1 <= relay /\ relay <= CCO_BUTTON_WINDOW_LENGTH) THEN FALSE
    ELSE LET index == window_offset + (relay - 1) IN
         IF index >= Len(led_states) THEN FALSE
         ELSE ListAt(led_states, index) = 1

\* The vectors asked: the sample of the tests, a mixed one, a short one,
\* the empty one and one of ones only
WindowVectors == { LedTest, LedMixed, LedShort, <<>>, [i \in 1..KLS_LEN |-> 1] }

\* The buttons asked: the window and two numbers on each side of it
WindowButtons == (0 - 1)..(CCO_BUTTON_WINDOW_LENGTH + 2)

InitWindow ==
    /\ ParserIdle
    /\ ClientIdle
    /\ CommandsIdle
    /\ TransportIdle
    /\ LifecycleIdle
    /\ WrapperIdle
    /\ _kls_window_offset \in 0..MAX_WINDOW_OFFSET
    /\ _keypad_led_states \in { [k \in {"kls"} |-> v] : v \in WindowVectors }
    /\ _cco_devices = EmptyDict
    /\ _cco_states = EmptyDict
    /\ _kls_poll_addresses = {}
    /\ notified = 0
    /\ lastOp = [op |-> "init"]
    /\ changed = {}

\* One call of each accessor for the same button
CallGetCcoState ==
    \E b \in WindowButtons :
        /\ lastOp' = [op |-> "get_cco_state", button |-> b,
                      state |-> KLSState_get_cco_state(
                          _keypad_led_states["kls"], b, _kls_window_offset),
                      relay_state |-> KLSMessage_get_cco_relay_state(
                          _keypad_led_states["kls"], b, _kls_window_offset)]
        /\ UNCHANGED <<parserVars, _kls_window_offset, _cco_devices,
                       _cco_states, _kls_poll_addresses, _keypad_led_states,
                       notified, changed, clientVars, commandVars,
                       transportVars, lifecycleVars, wrapper>>

NextWindow == CallGetCcoState

SpecWindow == InitWindow /\ [][NextWindow]_vars

\* C26: both accessors return true exactly when the button is one of 1..8,
\* offset + (button - 1) is an index of the vector and the digit there is
\* 1; for the vector 000000000222112110000000 and offset 9 the buttons
\* 1..8 give False, False, False, True, True, False, True, True
C26_WindowAccessors ==
    lastOp.op = "get_cco_state" =>
        LET v == _keypad_led_states["kls"]
            b == lastOp.button
            index == _kls_window_offset + (b - 1)
            expected == /\ 1 <= b
                        /\ b <= 8
                        /\ index \in 0..(Len(v) - 1)
                        /\ v[index + 1] = 1
        IN  /\ lastOp.state = expected
            /\ lastOp.relay_state = expected
            /\ (v = LedTest /\ _kls_window_offset = 9 /\ b \in 1..8) =>
                   lastOp.state =
                       <<FALSE, FALSE, FALSE, TRUE, TRUE, FALSE, TRUE, TRUE>>[b]

\* Button 4 of the sample vector was asked at offset 9 and is closed
C26_Witness ==
    /\ lastOp.op = "get_cco_state"
    /\ lastOp.button = 4
    /\ _keypad_led_states["kls"] = LedTest
    /\ _kls_window_offset = 9
    /\ lastOp.state
    /\ lastOp.relay_state

(***************************************************************************)
(* normalize_address called on its own                                     *)
(***************************************************************************)

\* Ways to write a segment: 1, 0 and 12 with no, some and much zero padding
SegmentTexts ==
    { <<"1">>, <<"0","1">>, <<"0","0","1">>, <<"0">>, <<"1","2">> }

\* Addresses of 2 to 5 segments, bare and bracketed
AddressTexts ==
    LET bare == UNION { { Join(f, <<":">>) : f \in [1..n -> SegmentTexts] } :
                        n \in 2..5 }
    IN  bare \cup { <<"[">> \o a \o <<"]">> : a \in bare }

InitAddress ==
    /\ stream \in AddressTexts
    /\ pos = 0
    /\ buffer = <<>>
    /\ out = <<>>
    /\ lastRet = <<>>
    /\ EngineIdle
    /\ ClientIdle
    /\ CommandsIdle
    /\ TransportIdle
    /\ LifecycleIdle
    /\ WrapperIdle

\* normalize_address(address), and normalize_address of what it returned
CallNormalize ==
    /\ lastOp.op = "init"
    /\ lastOp' = [op |-> "normalize_address",
                  result |-> normalize_address(stream),
                  again |-> normalize_address(normalize_address(stream))]
    /\ UNCHANGED <<parserVars, _kls_window_offset, _cco_devices, _cco_states,
                   _kls_poll_addresses, _keypad_led_states, notified, changed,
                   clientVars, commandVars, transportVars, lifecycleVars, wrapper>>

NextAddress == CallNormalize

SpecAddress == InitAddress /\ [][NextAddress]_vars

\* The integer segments of an address text
AddressInts(text) ==
    LET parts == Split(StripSet(text, {"[", "]"}), <<":">>)
    IN  [i \in 1..Len(parts) |-> DigitsVal(parts[i])]

\* The one text of an address: its segments with two digits, between colons
\* and brackets
CanonicalText(ints) ==
    <<"[">> \o Join([i \in 1..Len(ints) |-> Fmt02d(ints[i])], <<":">>)
        \o <<"]">>

\* C27: normalize_address is canonical and idempotent: every text of an
\* address, whatever its brackets and zero padding, normalizes to the one
\* bracketed, zero-padded text of its integer segments, and normalizing
\* that again changes nothing
C27_Canonical ==
    lastOp.op = "normalize_address" =>
        /\ lastOp.result = CanonicalText(AddressInts(stream))
        /\ lastOp.again = lastOp.result

(***************************************************************************)
(* Command builders (hwi_protocol/commands.py) called on their own.        *)
(* Durations are counted in hundredths of a second, intensities and fade   *)
(* and delay times in tenths of their unit.                                *)
(***************************************************************************)

\* str(n) of an int
IntStr(n) == IF n < 0 THEN <<"-">> \o DecStr(0 - n) ELSE DecStr(n)

\* 0.5 seconds, in hundredths of a second
HALF_SECOND == 50

\* int(duration_seconds / 0.5): the quotient cut towards zero
IntOfHalves(duration) ==
    IF duration >= 0 THEN duration \div HALF_SECOND
    ELSE 0 - ((0 - duration) \div HALF_SECOND)

\* cco_pulse without the lower clamp
cco_pulse_no_floor(address, relay, duration) ==
    LET n == IntOfHalves(duration)
        increments == IF n > 245 THEN 245 ELSE n
    IN  <<"C","C","O","P","U","L","S","E">> \o CommaSpace \o address
            \o CommaSpace \o IntStr(relay) \o CommaSpace \o IntStr(increments)

\* commands.cco_pulse(address, relay, duration_seconds)
cco_pulse(address, relay, duration) ==
    LET n == IntOfHalves(duration)
        capped == IF n > 245 THEN 245 ELSE n
        increments == IF capped < 1 THEN 1 ELSE capped
    IN  <<"C","C","O","P","U","L","S","E">> \o CommaSpace \o address
            \o CommaSpace \o IntStr(relay) \o CommaSpace \o IntStr(increments)

\* f"{x:.1f}" of a number of tenths
Fmt1f(tenths) ==
    LET a == IF tenths < 0 THEN 0 - tenths ELSE tenths
    IN  (IF tenths < 0 THEN <<"-">> ELSE <<>>)
            \o DecStr(a \div 10) \o <<".">> \o DecStr(a % 10)

FADEDIM == <<"F","A","D","E","D","I","M">>

\* commands.fade_dim(address, intensity, fade_time, delay_time)
fade_dim(address, intensity, fade_time, delay_time) ==
    FADEDIM \o CommaSpace \o Fmt1f(intensity) \o CommaSpace
        \o Fmt1f(fade_time) \o CommaSpace \o Fmt1f(delay_time)
        \o CommaSpace \o address

RPM_MOTOR_UP == 16
RPM_MOTOR_STOP == 0
RPM_MOTOR_DOWN == 35

\* The body shared by motor_cover_up, motor_cover_down and motor_cover_stop
motor_cover(value, address) ==
    FADEDIM \o CommaSpace \o IntStr(value) \o CommaSpace \o <<"0">>
        \o CommaSpace \o <<"0">> \o CommaSpace \o address

motor_cover_up(address) == motor_cover(RPM_MOTOR_UP, address)
motor_cover_down(address) == motor_cover(RPM_MOTOR_DOWN, address)
motor_cover_stop(address) == motor_cover(RPM_MOTOR_STOP, address)

\* Pulse durations: from below zero to three seconds, and around the 122.5
\* seconds of the cap
PulseDurations == ((0 - 60)..310) \cup (12190..12310)

FadeIntensities == {0, 5, 505, 750, 1000}
FadeTimes == {0, 5, 20, 100, 3000}
DelayTimes == {0, 5, 15}
MotorAddress == <<"[","0","1",":","0","1",":","0","0",":","0","2",":","0","4","]">>

InitBuilders ==
    /\ ParserIdle
    /\ EngineIdle
    /\ ClientIdle
    /\ CommandsIdle
    /\ TransportIdle
    /\ LifecycleIdle
    /\ WrapperIdle

BuilderFrame ==
    UNCHANGED <<parserVars, _kls_window_offset, _cco_devices, _cco_states,
                _kls_poll_addresses, _keypad_led_states, notified, changed,
                clientVars, commandVars, transportVars, lifecycleVars, wrapper>>

CallCcoPulse ==
    /\ \E d \in PulseDurations, relay \in {1, 8} :
           lastOp' = [op |-> "cco_pulse", duration |-> d, relay |-> relay,
                      command |-> cco_pulse(AddrCanon, relay, d)]
    /\ BuilderFrame

CallFadeDim ==
    /\ \E i \in FadeIntensities, f \in FadeTimes, d \in DelayTimes :
           lastOp' = [op |-> "fade_dim", intensity |-> i, fade_time |-> f,
                      delay_time |-> d, address |-> MotorAddress,
                      command |-> fade_dim(MotorAddress, i, f, d)]
    /\ BuilderFrame

CallMotorCover ==
    /\ \E c \in { motor_cover_up(MotorAddress), motor_cover_down(MotorAddress),
                  motor_cover_stop(MotorAddress) } :
           lastOp' = [op |-> "motor_cover", address |-> MotorAddress,
                      command |-> c]
    /\ BuilderFrame

NextBuilders == CallCcoPulse \/ CallFadeDim \/ CallMotorCover

SpecBuilders == InitBuilders /\ [][NextBuilders]_vars

\* C28: the last field of a CCOPULSE command is the number of whole
\* half seconds in the duration, but 1 if that is less and 245 if that is
\* more; 2.5 seconds give 5
C28_PulseClamped ==
    lastOp.op = "cco_pulse" =>
        LET fields == Split(lastOp.command, CommaSpace)
            d == lastOp.duration
            whole == IF d < 50 THEN 1
                     ELSE IF d >= 12250 THEN 245
                     ELSE CHOOSE n \in 1..245 : n * 50 <= d /\ d < (n + 1) * 50
        IN  /\ Len(fields) = 4
            /\ fields[4] = DecStr(whole)
            /\ d = 250 => fields[4] = <<"5">>

\* A negative duration has come out as 1, or one beyond the cap as 245, or
\* 2.99 seconds as 5
C28_Witness ==
    /\ lastOp.op = "cco_pulse"
    /\ \/ lastOp.duration = 0 - 30
            /\ Split(lastOp.command, CommaSpace)[4] = <<"1">>
       \/ lastOp.duration = 12300
            /\ Split(lastOp.command, CommaSpace)[4] = <<"2","4","5">>
       \/ lastOp.duration = 299
            /\ Split(lastOp.command, CommaSpace)[4] = <<"5">>

\* A number written with exactly one decimal place
OneDecimal(s) ==
    /\ Len(s) >= 3
    /\ s[Len(s) - 1] = "."
    /\ IsDigit(s[Len(s)])
    /\ \A i \in 1..(Len(s) - 2) : IsDigit(s[i])

\* C29: every FADEDIM command, of fade_dim and of the motor cover builders,
\* reads FADEDIM, <intensity>, <fade_time>, <delay_time>, <addr> with each
\* number written with exactly one decimal place; fade_dim(addr, 75.0, 2.0,
\* 0.5) is "FADEDIM, 75.0, 2.0, 0.5, " + addr
C29_FadeDimFormat ==
    lastOp.op \in {"fade_dim", "motor_cover"} =>
        LET fields == Split(lastOp.command, CommaSpace)
        IN  /\ Len(fields) = 5
            /\ fields[1] = FADEDIM
            /\ \A i \in 2..4 : OneDecimal(fields[i])
            /\ fields[5] = lastOp.address
            /\ (lastOp.op = "fade_dim" /\ lastOp.intensity = 750
                    /\ lastOp.fade_time = 20 /\ lastOp.delay_time = 5)
               => lastOp.command =
                      FADEDIM \o <<",", " ", "7", "5", ".", "0", ",", " ",
                                   "2", ".", "0", ",", " ", "0", ".", "5",
                                   ",", " ">> \o lastOp.address


(***************************************************************************)
(* HomeworksTransport called on its own: connect, write, read and close,   *)
(* one call at a time, with the network choosing what each await meets.    *)
(* The transport is the record t of its fields; every operation yields the *)
(* fields after the call, what it returned, the exception that left it     *)
(* ("none" if it returned) and the bytes it handed to the socket.          *)
(***************************************************************************)

LOGIN_REQUEST == <<"L", "O", "G", "I", "N", ":", " ">>
LOGIN_INCORRECT ==
    <<"l", "o", "g", "i", "n", " ", "i", "n", "c", "o", "r", "r", "e", "c", "t">>
LOGIN_SUCCESSFUL ==
    <<"l", "o", "g", "i", "n", " ", "s", "u", "c", "c", "e", "s", "s", "f", "u", "l">>

\* bytes.startswith
StartsWith(s, prefix) == MatchAt(s, prefix, 1)

\* while data.startswith(CRLF): data = data[len(CRLF):]
RECURSIVE StripLeadingCRLF(_)
StripLeadingCRLF(data) ==
    IF StartsWith(data, CRLF)
    THEN StripLeadingCRLF(SubSeq(data, Len(CRLF) + 1, Len(data)))
    ELSE data

\* str.encode("utf-8") of one character: "uD800" is a lone surrogate, which
\* has no encoding; "é" takes two bytes; ASCII characters take one
Utf8Fails(c) == c = "uD800"
Utf8Bytes(c) == IF c = "é" THEN <<"xC3", "xA9">> ELSE <<c>>

\* str.encode("utf-8") raises UnicodeEncodeError
EncodeFails(text) == \E i \in 1..Len(text) : Utf8Fails(text[i])

\* str.encode("utf-8")
Encode(text) == Flatten([i \in 1..Len(text) |-> Utf8Bytes(text[i])])

\* The fields of the transport
TransportFields == [_reader |-> _reader, _writer |-> _writer,
                    _connected |-> _connected]

\* HomeworksTransport.connected
Transport_connected(t) == t._connected /\ t._writer

\* HomeworksTransport.close() clearing the writer but not the reader
close_keeps_reader(t, closeRaises) ==
    [t |-> [t EXCEPT !._connected = FALSE, !._writer = FALSE],
     ret |-> "None", raised |-> "none", wire |-> <<>>]

\* HomeworksTransport.close(); closeRaises tells whether writer.close() or
\* wait_closed() raises, which `except Exception: pass` swallows
close(t, closeRaises) ==
    [t |-> [_connected |-> FALSE,
            _writer |-> FALSE,
            _reader |-> IF t._writer THEN FALSE ELSE t._reader],
     ret |-> "None", raised |-> "none", wire |-> <<>>]

\* HomeworksTransport.write(command); drainOk tells whether writer.drain()
\* passes or raises a ConnectionError / OSError
write(t, command, drainOk, closeRaises) ==
    IF ~t._writer
    THEN [t |-> t, ret |-> "False", raised |-> "none", wire |-> <<>>]
    ELSE IF EncodeFails(command)
    THEN [t |-> t, ret |-> "none", raised |-> "UnicodeEncodeError",
          wire |-> <<>>]
    ELSE IF drainOk
    THEN [t |-> t, ret |-> "True", raised |-> "none",
          wire |-> Encode(command) \o CRLF]
    ELSE [t |-> close(t, closeRaises).t, ret |-> "False", raised |-> "none",
          wire |-> Encode(command) \o CRLF]

\* HomeworksTransport.read(); ev is what reader.read() meets: bytes, the
\* timeout of wait_for, the end of the stream (b"") or a reset of the socket
\* (ConnectionResetError, which only `except asyncio.TimeoutError` guards)
read(t, ev) ==
    IF ~t._reader
    THEN [t |-> t, ret |-> <<>>, raised |-> "HomeworksConnectionLost",
          wire |-> <<>>]
    ELSE CASE ev.kind = "data" ->
                [t |-> t, ret |-> ev.data, raised |-> "none", wire |-> <<>>]
           [] ev.kind = "timeout" ->
                [t |-> t, ret |-> <<>>, raised |-> "none", wire |-> <<>>]
           [] ev.kind = "eof" ->
                [t |-> t, ret |-> <<>>, raised |-> "HomeworksConnectionLost",
                 wire |-> <<>>]
           [] ev.kind = "reset" ->
                [t |-> t, ret |-> <<>>, raised |-> "ConnectionResetError",
                 wire |-> <<>>]

\* HomeworksTransport._read_available()
_read_available(t, ev) ==
    IF ~t._reader
    THEN [t |-> t, ret |-> <<>>, raised |-> "none", wire |-> <<>>]
    ELSE CASE ev.kind = "data" ->
                [t |-> t, ret |-> ev.data, raised |-> "none", wire |-> <<>>]
           [] ev.kind \in {"timeout", "eof"} ->
                [t |-> t, ret |-> <<>>, raised |-> "none", wire |-> <<>>]
           [] ev.kind = "reset" ->
                [t |-> t, ret |-> <<>>, raised |-> "ConnectionResetError",
                 wire |-> <<>>]

\* The credentials given to the constructor, when some were given
Credentials == <<"p", "w">>

\* HomeworksTransport._handle_login(); net tells what the awaits meet
_handle_login(t, creds, net) ==
    IF ~creds
    THEN [t |-> t, ret |-> "None",
          raised |-> "HomeworksNoCredentialsProvided", wire |-> <<>>]
    ELSE LET w == write(t, Credentials, net.drainOk, net.closeRaises)
             r == _read_available(w.t, net.response)
         IN  IF w.raised # "none" THEN w
             ELSE IF r.raised # "none"
             THEN [t |-> w.t, ret |-> "None", raised |-> r.raised,
                   wire |-> w.wire]
             ELSE IF StartsWith(StripLeadingCRLF(r.ret), LOGIN_INCORRECT)
             THEN [t |-> w.t, ret |-> "None",
                   raised |-> "HomeworksInvalidCredentialsProvided",
                   wire |-> w.wire]
             ELSE [t |-> w.t, ret |-> "None", raised |-> "none",
                   wire |-> w.wire]

\* HomeworksTransport.connect(); net tells what the awaits meet
connect(t, creds, net) ==
    IF net.open # "ok"
    THEN [t |-> t, ret |-> "None", raised |-> "HomeworksConnectionFailed",
          wire |-> <<>>]
    ELSE LET opened == [t EXCEPT !._reader = TRUE, !._writer = TRUE]
             initial == _read_available(opened, net.initial)
             login == _handle_login(opened, creds, net)
         IN  IF initial.raised # "none"
             THEN [t |-> opened, ret |-> "None", raised |-> initial.raised,
                   wire |-> <<>>]
             ELSE IF StartsWith(StripLeadingCRLF(initial.ret), LOGIN_REQUEST)
             THEN IF login.raised # "none" THEN login
                  ELSE [login EXCEPT !.t._connected = TRUE]
             ELSE [t |-> [opened EXCEPT !._connected = TRUE], ret |-> "None",
                   raised |-> "none", wire |-> <<>>]

\* What a read on the socket may meet
ReadEvents ==
    { [kind |-> k, data |-> <<>>] : k \in {"timeout", "eof", "reset"} }
    \cup { [kind |-> "data", data |-> d] :
             d \in { <<"x">>,
                     LOGIN_REQUEST,
                     CRLF \o CRLF \o LOGIN_REQUEST,
                     CRLF \o LOGIN_INCORRECT,
                     CRLF \o LOGIN_SUCCESSFUL } }

\* What the awaits of one connect() may meet
NetInputs ==
    [open : {"ok", "timeout", "refused"},
     initial : ReadEvents,
     drainOk : BOOLEAN,
     closeRaises : BOOLEAN,
     response : ReadEvents]

\* Commands given to write(): plain ASCII, a non-ASCII character, and a lone
\* surrogate
Commands == { <<"K", "B", "M", "O", "N">>, <<"é">>, <<"uD800">> }

InitTransport ==
    /\ ParserIdle
    /\ EngineIdle
    /\ CommandsIdle
    /\ _running = FALSE
    /\ _read_task = "none"
    /\ runPc = "start"
    /\ sockOpen = FALSE
    /\ _connected = FALSE
    /\ _reconnect_delay = RECONNECT_DELAY_MIN
    /\ hasCreds \in BOOLEAN
    /\ subWritten = <<>>
    /\ readIssued = FALSE
    /\ conns = 0
    /\ failCount = 0
    /\ failTotal = 0
    /\ lastAct = [op |-> "init"]
    /\ stopPc = "idle"
    /\ stopResult = "none"
    /\ TransportIdle
    /\ LifecycleIdle
    /\ WrapperIdle

\* variables no call on the transport touches
TransportFrame ==
    UNCHANGED <<parserVars, engineVars, commandVars, lifecycleVars, wrapper,
                _running, _read_task, runPc, sockOpen, _reconnect_delay, hasCreds, subWritten,
                readIssued, conns, failCount, failTotal, lastAct, stopPc,
                stopResult>>

\* The call ended with result r: the fields it leaves and the record of it
CallDone(op, args, r) ==
    /\ _reader' = r.t._reader
    /\ _writer' = r.t._writer
    /\ _connected' = r.t._connected
    /\ lastCall' = [op |-> op, args |-> args, before |-> TransportFields,
                    ret |-> r.ret, raised |-> r.raised, wire |-> r.wire]

\* await transport.connect()
ConnectCall ==
    \E net \in NetInputs :
        /\ CallDone("connect", net, connect(TransportFields, hasCreds, net))
        /\ TransportFrame

\* await transport.write(command)
WriteCall ==
    \E command \in Commands, drainOk \in BOOLEAN, closeRaises \in BOOLEAN :
        /\ CallDone("write",
                    [command |-> command, drainOk |-> drainOk,
                     closeRaises |-> closeRaises],
                    write(TransportFields, command, drainOk, closeRaises))
        /\ TransportFrame

\* await transport.read()
ReadCall ==
    \E ev \in ReadEvents :
        /\ CallDone("read", ev, read(TransportFields, ev))
        /\ TransportFrame

\* await transport.close()
CloseCall ==
    \E closeRaises \in BOOLEAN :
        /\ CallDone("close", [closeRaises |-> closeRaises],
                    close(TransportFields, closeRaises))
        /\ TransportFrame

NextTransport == ConnectCall \/ WriteCall \/ ReadCall \/ CloseCall

SpecTransport == InitTransport /\ [][NextTransport]_vars

\* C15: write never raises: without a writer it returns False and changes
\* nothing; otherwise it hands command + CRLF to the socket and, when the
\* flush passes, returns True; when the flush fails it closes the connection
\* (the transport reports not connected) and returns False
C15_WriteNeverRaises ==
    lastCall.op = "write" =>
        /\ lastCall.raised = "none"
        /\ ~lastCall.before._writer =>
               /\ lastCall.ret = "False"
               /\ lastCall.wire = <<>>
               /\ TransportFields = lastCall.before
        /\ lastCall.before._writer =>
               lastCall.wire = Encode(lastCall.args.command) \o CRLF
        /\ (lastCall.before._writer /\ lastCall.args.drainOk) =>
               /\ lastCall.ret = "True"
               /\ TransportFields = lastCall.before
        /\ (lastCall.before._writer /\ ~lastCall.args.drainOk) =>
               /\ lastCall.ret = "False"
               /\ ~Transport_connected(TransportFields)

\* C16: read returns the bytes when some arrive, returns no bytes without an
\* error on a timeout, and raises HomeworksConnectionLost, and no other
\* exception, at the end of the stream, on a socket reset and without a
\* connection; it changes no field
C16_ReadOutcomes ==
    lastCall.op = "read" =>
        /\ lastCall.raised \in {"none", "HomeworksConnectionLost"}
        /\ (lastCall.before._reader /\ lastCall.args.kind = "data") =>
               lastCall.raised = "none" /\ lastCall.ret = lastCall.args.data
        /\ (lastCall.before._reader /\ lastCall.args.kind = "timeout") =>
               lastCall.raised = "none" /\ lastCall.ret = <<>>
        /\ (~lastCall.before._reader \/ lastCall.args.kind \in {"eof", "reset"})
               => lastCall.raised = "HomeworksConnectionLost"

\* C17: close() never raises in any state of the transport; after it the
\* transport is not connected and holds neither reader nor writer, and a
\* close after a close changes nothing
C17_CloseIdempotent ==
    [][lastCall'.op = "close" =>
          /\ lastCall'.raised = "none"
          /\ ~Transport_connected(TransportFields')
          /\ ~_reader' /\ ~_writer' /\ ~_connected'
          /\ lastCall.op = "close" => TransportFields' = TransportFields]_vars

\* C17 witness: close() has just been called, with the socket raising while
\* it is closed, on a transport that a failed login left with a socket and
\* not connected
C17_Witness ==
    /\ lastCall.op = "close"
    /\ lastCall.args.closeRaises
    /\ lastCall.before = [_reader |-> TRUE, _writer |-> TRUE, _connected |-> FALSE]
    /\ ~_reader /\ ~_writer /\ ~_connected

\* C18: connect() either returns, leaving the transport connected, or raises
\* one of HomeworksConnectionFailed, HomeworksNoCredentialsProvided and
\* HomeworksInvalidCredentialsProvided, leaving it not connected
C18_ConnectOutcomes ==
    lastCall.op = "connect" =>
        /\ lastCall.raised \in {"none", "HomeworksConnectionFailed",
                                "HomeworksNoCredentialsProvided",
                                "HomeworksInvalidCredentialsProvided"}
        /\ lastCall.raised = "none" => Transport_connected(TransportFields)
        /\ lastCall.raised # "none" => ~Transport_connected(TransportFields)

(***************************************************************************)
(* start() and stop() of HomeworksClient called by host tasks, and the     *)
(* tasks created for _run.  A task is followed from await to await: the    *)
(* connect (with the subscription writes), the read, and the sleeps.       *)
(***************************************************************************)

LoopIds == 1..MaxLoops

\* Tasks that were created and have not ended
LiveLoops == { i \in LoopIds : loops[i].pc \notin {"unborn", "done", "crashed"} }

\* Tasks suspended inside transport.read()
ReadingLoops == { i \in LoopIds : loops[i].pc = "read" }

\* task.cancel() queues the CancelledError ahead of the wake-ups that arrive
\* later, so a task with a cancellation pending ends before any task is
\* resumed by the network or by a timer, or is run for the first time
NoCancelPending == \A i \in LiveLoops : ~loops[i].cancel

\* Tasks created and not yet run: create_task() queues their first step
Unstarted == { i \in LoopIds : loops[i].pc = "created" }

\* The ready queue is served in order before the network and the timers: a
\* task suspended in an await is resumed only when no cancellation and no
\* first step is waiting to run
QueueServed == NoCancelPending /\ Unstarted = {}

InitLifecycle ==
    /\ ParserIdle
    /\ EngineIdle
    /\ ClientIdle
    /\ CommandsIdle
    /\ TransportIdle
    /\ LifecycleIdle
    /\ WrapperIdle

\* variables no step of a host or of a read-loop task touches
LifecycleFrame ==
    UNCHANGED <<parserVars, engineVars, commandVars, transportVars, wrapper,
                _read_task, runPc, _reconnect_delay, hasCreds, subWritten,
                readIssued, conns, failCount, failTotal, lastAct, stopPc,
                stopResult>>

\* transport.close() as stop() and _run call it
LifecycleClose == sockOpen' = FALSE /\ _connected' = FALSE

\* Where task i goes from the head of `while self._running`, up to its next
\* await; running and conn are the flags it finds there
LoopNext(running, conn) ==
    IF ~running THEN "done" ELSE IF conn THEN "read" ELSE "connect"

\* HomeworksClient.start() called by host h
HostStart ==
    \E h \in Hosts :
        /\ hostPc[h] = "idle"
        /\ IF _running
           THEN UNCHANGED <<_running, loops, readTaskRef>>
           ELSE /\ \E i \in LoopIds :
                    /\ loops[i].pc = "unborn"
                    /\ \A j \in LoopIds : j < i => loops[j].pc # "unborn"
                    /\ loops' = [loops EXCEPT ![i].pc = "created"]
                    /\ readTaskRef' = i
                /\ _running' = TRUE
        /\ UNCHANGED <<sockOpen, _connected, hostPc, hostWait>>
        /\ LifecycleFrame

\* HomeworksClient.stop() called by host h, up to its return, its exception
\* or its suspension in `await self._read_task`
HostStop ==
    \E h \in Hosts :
        /\ hostPc[h] = "idle"
        /\ _running' = FALSE
        /\ CASE readTaskRef = 0 ->
                  /\ LifecycleClose
                  /\ UNCHANGED <<loops, readTaskRef, hostPc, hostWait>>
             [] readTaskRef # 0 /\ loops[readTaskRef].pc = "done" ->
                  /\ readTaskRef' = 0
                  /\ LifecycleClose
                  /\ UNCHANGED <<loops, hostPc, hostWait>>
             [] readTaskRef # 0 /\ loops[readTaskRef].pc = "crashed" ->
                  UNCHANGED <<loops, readTaskRef, hostPc, hostWait, sockOpen,
                              _connected>>
             [] OTHER ->
                  /\ loops' = [loops EXCEPT ![readTaskRef].cancel = TRUE]
                  /\ hostPc' = [hostPc EXCEPT ![h] = "stop_await"]
                  /\ hostWait' = [hostWait EXCEPT ![h] = readTaskRef]
                  /\ UNCHANGED <<readTaskRef, sockOpen, _connected>>
        /\ LifecycleFrame

\* stop() of host h resumes after the task it awaits has ended cancelled: it
\* clears _read_task and closes the transport
HostStopResume ==
    \E h \in Hosts :
        /\ hostPc[h] = "stop_await"
        /\ loops[hostWait[h]].pc = "done"
        /\ readTaskRef' = 0
        /\ LifecycleClose
        /\ hostPc' = [hostPc EXCEPT ![h] = "idle"]
        /\ hostWait' = [hostWait EXCEPT ![h] = 0]
        /\ UNCHANGED <<loops, _running>>
        /\ LifecycleFrame

\* Task i is scheduled for the first time
LoopBegin ==
    \E i \in LoopIds :
        /\ loops[i].pc = "created" /\ NoCancelPending
        /\ \A j \in Unstarted : j >= i
        /\ loops' = [loops EXCEPT ![i].pc = LoopNext(_running, connected)]
        /\ UNCHANGED <<_running, sockOpen, _connected, readTaskRef, hostPc,
                       hostWait>>
        /\ LifecycleFrame

\* transport.connect() and _subscribe() of task i end: connected, it calls
\* transport.read(); failed, it sleeps if the client is running
LoopConnect ==
    \E i \in LoopIds, ok \in BOOLEAN :
        /\ loops[i].pc = "connect" /\ QueueServed
        /\ IF ok
           THEN /\ sockOpen' = TRUE /\ _connected' = TRUE
                /\ loops' = [loops EXCEPT ![i].pc = "read"]
           ELSE /\ UNCHANGED <<sockOpen, _connected>>
                /\ loops' = [loops EXCEPT ![i].pc =
                                 IF _running THEN "sleep" ELSE "done"]
        /\ UNCHANGED <<_running, readTaskRef, hostPc, hostWait>>
        /\ LifecycleFrame

\* transport.read() of task i returns bytes or times out
LoopRead ==
    \E i \in LoopIds :
        /\ loops[i].pc = "read" /\ QueueServed
        /\ sockOpen
        /\ loops' = [loops EXCEPT ![i].pc = LoopNext(_running, connected)]
        /\ UNCHANGED <<_running, sockOpen, _connected, readTaskRef, hostPc,
                       hostWait>>
        /\ LifecycleFrame

\* transport.read() of task i raises HomeworksConnectionLost: it closes the
\* transport and sleeps if the client is running
LoopLost ==
    \E i \in LoopIds :
        /\ loops[i].pc = "read" /\ QueueServed
        /\ LifecycleClose
        /\ loops' = [loops EXCEPT ![i].pc =
                         IF _running THEN "sleep" ELSE "done"]
        /\ UNCHANGED <<_running, readTaskRef, hostPc, hostWait>>
        /\ LifecycleFrame

\* transport.read() of task i raises ConnectionResetError, which ends it
LoopReset ==
    \E i \in LoopIds :
        /\ loops[i].pc = "read" /\ QueueServed
        /\ sockOpen
        /\ loops' = [loops EXCEPT ![i].pc = "crashed"]
        /\ UNCHANGED <<_running, sockOpen, _connected, readTaskRef, hostPc,
                       hostWait>>
        /\ LifecycleFrame

\* The sleep of task i is over
LoopWake ==
    \E i \in LoopIds :
        /\ loops[i].pc = "sleep" /\ QueueServed
        /\ loops' = [loops EXCEPT ![i].pc = LoopNext(_running, connected)]
        /\ UNCHANGED <<_running, sockOpen, _connected, readTaskRef, hostPc,
                       hostWait>>
        /\ LifecycleFrame

\* The CancelledError of stop() reaches task i at its await and ends it
LoopCancelled ==
    \E i \in LoopIds :
        /\ i \in LiveLoops /\ loops[i].cancel
        /\ loops' = [loops EXCEPT ![i].pc = "done"]
        /\ UNCHANGED <<_running, sockOpen, _connected, readTaskRef, hostPc,
                       hostWait>>
        /\ LifecycleFrame

NextLifecycle ==
    \/ HostStart \/ HostStop \/ HostStopResume
    \/ LoopBegin \/ LoopConnect \/ LoopRead \/ LoopLost \/ LoopReset
    \/ LoopWake \/ LoopCancelled

SpecLifecycle == InitLifecycle /\ [][NextLifecycle]_vars

\* C19: start() on a running client creates no task; a task that has called
\* transport.read() is the only live task that has, every task created
\* before it having ended; transport.read() is never executed by two tasks
\* at once
C19_OneReadLoop ==
    /\ [][_running => \A i \in LoopIds :
                          loops[i].pc = "unborn" => loops'[i].pc = "unborn"]_vars
    /\ [](\A i \in ReadingLoops : \A j \in LiveLoops : j >= i)
    /\ [](Cardinality(ReadingLoops) <= 1)

\* C32: when the peer sends the login prompt and credentials are stored,
\* connect() on a transport that is not connected marks it connected only if
\* the reply to the credentials begins with "login successful"; with any
\* other reply, with none, and when the credentials could not be written,
\* connect() fails and the transport is not connected
C32_LoginGate ==
    (/\ lastCall.op = "connect"
     /\ lastCall.args.open = "ok"
     /\ hasCreds
     /\ ~lastCall.before._connected
     /\ ~lastCall.before._writer
     /\ lastCall.args.initial.kind = "data"
     /\ StartsWith(StripLeadingCRLF(lastCall.args.initial.data), LOGIN_REQUEST))
    => \/ /\ lastCall.args.drainOk
          /\ lastCall.args.response.kind = "data"
          /\ StartsWith(StripLeadingCRLF(lastCall.args.response.data),
                        LOGIN_SUCCESSFUL)
       \/ /\ lastCall.raised # "none"
          /\ ~_connected
(***************************************************************************)
(* SpecWrapper: the HomeworksClient wrapper of homeworks_hwi around the     *)
(* read loop.  The coordinator calls connect(), then start(); the wrapper's *)
(* _handle_message is the callback of the loop.                             *)
(***************************************************************************)

HW_CONNECTION_LOST == "connection_lost"
HW_CONNECTION_RESTORED == "connection_restored"

\* ControllerHealth.record_reconnect on the health fields kept in w
record_reconnect(w) == [w EXCEPT !.reconnect_count = @ + 1]

\* The connection check of _handle_message for one message; conn is
\* self._client.connected when the callback runs
_handle_message(w, conn) ==
    IF conn /\ ~w._was_connected
    THEN [record_reconnect(w) EXCEPT !._was_connected = TRUE,
                                     !.reported = @ \cup {HW_CONNECTION_RESTORED}]
    ELSE IF ~conn /\ w._was_connected
    THEN [w EXCEPT !._was_connected = FALSE,
                   !.connected = FALSE,
                   !.reported = @ \cup {HW_CONNECTION_LOST}]
    ELSE w

\* _handle_message called for each message of a batch in turn
RECURSIVE HandleBatch(_, _, _)
HandleBatch(w, messages, conn) ==
    IF messages = <<>> THEN w
    ELSE HandleBatch(_handle_message(w, conn), Tail(messages), conn)

InitWrapper ==
    /\ InitClient
    /\ hasCreds

\* connect() of the wrapper, called once by the coordinator before start():
\* the client's connect() opens the socket and subscribes (ok), or fails
Wrapper_connect ==
    /\ ~_running /\ _read_task = "none" /\ conns = 0 /\ lastAct.op = "init"
    /\ \E ok \in BOOLEAN :
        IF ok
        THEN /\ sockOpen' = TRUE
             /\ _connected' = TRUE
             /\ conns' = 1
             /\ subWritten' = SubscribeCommands
             /\ wrapper' = [wrapper EXCEPT !.connected = TRUE,
                                           !._was_connected = TRUE]
             /\ lastAct' = [op |-> "connect"]
        ELSE /\ wrapper' = [wrapper EXCEPT !.connected = FALSE]
             /\ lastAct' = [op |-> "connect_failed"]
             /\ UNCHANGED <<sockOpen, _connected, conns, subWritten>>
    /\ ReadFrame
    /\ UNCHANGED <<buffer, _running, _read_task, runPc, _reconnect_delay,
                   readIssued, failCount, failTotal, stopPc, stopResult,
                   lastWrite>>

\* start() of the wrapper, called by the coordinator after connect() succeeded
Wrapper_start ==
    /\ lastAct.op = "connect"
    /\ start

\* transport.read returns bytes and the loop hands every message to
\* _handle_message
Wrapper_ReadData ==
    /\ ReadDataBody
    /\ wrapper' = HandleBatch(wrapper, lastAct'.dispatched, connected)

NextWrapper ==
    \/ Wrapper_connect \/ Wrapper_start
    \/ RunStart \/ OpenOk \/ OpenFail \/ PromptWait
    \/ InitialNoPrompt \/ LoginPrompt
    \/ LoginWrite \/ LoginAccepted \/ LoginIncorrect \/ ConnectReset
    \/ SubscribeWrite
    \/ Wrapper_ReadData \/ ReadTimeout \/ ReadEof \/ ReadReset
    \/ BackoffDone \/ LostSleepDone

SpecWrapper == InitWrapper /\ [][NextWrapper]_vars

\* C33: once a message is handled on a connection the read loop re-established
\* after a loss, the wrapper has reported HW_CONNECTION_LOST (setting
\* health.connected false) and HW_CONNECTION_RESTORED and has counted the
\* reconnect; it counts no reconnect before one happened
C33_ConnectionEvents ==
    /\ (lastAct.op = "batch" /\ lastAct.dispatched # <<>> /\ conns = 2)
          => /\ HW_CONNECTION_LOST \in wrapper.reported
             /\ HW_CONNECTION_RESTORED \in wrapper.reported
             /\ wrapper.reconnect_count >= 1
    /\ wrapper.reconnect_count > 0 => conns = 2
(***************************************************************************)
(* SpecCache: the coordinator's caches while the read loop loses and        *)
(* re-establishes the connection and commands fail                          *)
(***************************************************************************)

\* The keys of the devices registered here
CacheKeys == { unique_key(a) : a \in CommandAddresses }

InitCache ==
    /\ TransportIdle
    /\ LifecycleIdle
    /\ WrapperIdle
    /\ ParserIdle
    /\ CommandsIdle
    /\ _kls_window_offset = CCO_BUTTON_WINDOW_OFFSET
    /\ _cco_devices = EmptyDict
    /\ _cco_states = EmptyDict
    /\ _kls_poll_addresses = {}
    /\ _keypad_led_states = EmptyDict
    /\ notified = 0
    /\ lastOp = [op |-> "init"]
    /\ changed = {}
    /\ _running = FALSE
    /\ _read_task = "none"
    /\ runPc = "start"
    /\ sockOpen = FALSE
    /\ _connected = FALSE
    /\ _reconnect_delay = RECONNECT_DELAY_MIN
    /\ hasCreds = FALSE
    /\ subWritten = <<>>
    /\ readIssued = FALSE
    /\ conns = 0
    /\ failCount = 0
    /\ failTotal = 0
    /\ lastAct = [op |-> "init"]
    /\ stopPc = "idle"
    /\ stopResult = "none"

\* register_cco_device for one of the devices registered here
Cache_register ==
    /\ register_cco_device
    /\ DOMAIN _cco_devices' \subseteq CacheKeys

\* unregister_cco_device for one of the devices registered here
Cache_unregister ==
    /\ unregister_cco_device
    /\ lastOp'.key \in CacheKeys

\* A KLS line read on the connection and dispatched to _handle_kls_update
Cache_kls ==
    /\ runPc = "read" /\ connected
    /\ _handle_kls_update

\* async_cco_close / async_cco_open; without a connection the command fails
Cache_command ==
    /\ async_cco_close \/ async_cco_open
    /\ connected \/ ~lastOp'.result

NextCache ==
    \/ Cache_register \/ Cache_unregister \/ Cache_kls \/ Cache_command
    \/ start \/ RunStart \/ OpenOk \/ PromptWait
    \/ InitialNoPrompt \/ SubscribeWrite
    \/ ReadEof \/ LostSleepDone

SpecCache == InitCache /\ [][NextCache]_vars

\* C34: a step of the read loop (connection loss with its parser reset,
\* reconnection) and a failed command leave every entry of the CCO state cache
\* and of the KLS cache as it was; a key leaves the CCO state cache only in
\* unregister_cco_device for that key, and after that call neither the
\* registry nor the state cache holds the key
C34_CachesKept ==
    [][/\ (clientVars' # clientVars \/ buffer' # buffer)
          => UNCHANGED <<_cco_states, _keypad_led_states>>
       /\ (lastOp'.op \in {"cco_close", "cco_open"} /\ ~lastOp'.result)
          => UNCHANGED <<_cco_states, _keypad_led_states>>
       /\ \A k \in DOMAIN _cco_states :
             k \notin DOMAIN _cco_states'
                => lastOp'.op = "unregister" /\ lastOp'.key = k
       /\ (lastOp'.op = "unregister" /\ lastOp' # lastOp)
          => /\ lastOp'.key \notin DOMAIN _cco_devices'
             /\ lastOp'.key \notin DOMAIN _cco_states']_vars

\* C34 witness: a cached true state and a cached LED vector are still there
\* after the connection was lost and a second one is open, and a failed
\* command has just returned
C34_Witness ==
    /\ conns = 2 /\ connected
    /\ \E k \in DOMAIN _cco_states : _cco_states[k]
    /\ _keypad_led_states # EmptyDict
    /\ lastOp.op \in {"cco_close", "cco_open"} /\ ~lastOp.result
(***************************************************************************)
(* SpecThread: the threaded client Homeworks of pyhomeworks.py: its run()   *)
(* loop in a thread of its own and stop() called by the host.  _read_task   *)
(* is the state of the thread, sockOpen tells whether self._socket is set,  *)
(* buffer is the local `buffer` of run().                                   *)
(***************************************************************************)

\* The lines _processReceivedData drops without a word
IGNORED == {
    <<"K","e","y","p","a","d"," ","b","u","t","t","o","n"," ","m","o","n","i","t","o","r","i","n","g"," ","e","n","a","b","l","e","d">>,
    <<"G","r","a","f","i","k","E","y","e"," ","s","c","e","n","e"," ","m","o","n","i","t","o","r","i","n","g"," ","e","n","a","b","l","e","d">>,
    <<"D","i","m","m","e","r"," ","l","e","v","e","l"," ","m","o","n","i","t","o","r","i","n","g"," ","e","n","a","b","l","e","d">>,
    <<"K","e","y","p","a","d"," ","l","e","d"," ","m","o","n","i","t","o","r","i","n","g"," ","e","n","a","b","l","e","d">>,
    <<"C","C","O"," ","m","o","n","i","t","o","r","i","n","g"," ","e","n","a","b","l","e","d">>,
    <<"C","o","v","e","r"," ","m","o","n","i","t","o","r","i","n","g"," ","e","n","a","b","l","e","d">>
}

\* ACTIONS, for the verbs used here: the parsers of the arguments
ACTIONS_TABLE ==
    [v \in {<<"K","B","P">>, <<"D","L">>, <<"K","L","S">>} |->
        IF v = <<"K","B","P">> THEN <<"_p_address", "_p_button">>
        ELSE IF v = <<"D","L">> THEN <<"_p_address", "_p_level">>
        ELSE <<"_p_address", "_p_ledstate">>]

\* The parser raises ValueError on arg
ParserFails(parser, arg) ==
    CASE parser \in {"_p_button", "_p_level"} -> IntFails(arg)
      [] parser = "_p_ledstate" -> \E i \in 1..Len(arg) : IntFails(<<arg[i]>>)
      [] OTHER -> FALSE

\* What the host's callback does when it is called
CallbackOutcomes == {"ok", "ValueError", "ConnectionError", "Exception"}

\* _processReceivedData(data_b) with a callback that behaves as cb: how the
\* call ends.  The handler of UnicodeDecodeError logs `data`, which is not
\* bound when decode() raised: UnboundLocalError leaves the method
_processReceivedData(data_b, cb) ==
    IF DecodeFails(data_b) THEN "UnboundLocalError"
    ELSE IF data_b \in IGNORED THEN "ignored"
    ELSE LET raw_args == Split(data_b, CommaSpace) IN
         IF raw_args[1] \in DOMAIN ACTIONS_TABLE
            /\ Len(raw_args) = Len(ACTIONS_TABLE[raw_args[1]]) + 1
         THEN IF \E i \in 1..Len(ACTIONS_TABLE[raw_args[1]]) :
                    ParserFails(ACTIONS_TABLE[raw_args[1]][i], raw_args[i + 1])
              THEN "unexpected_data"
              ELSE CASE cb = "ok" -> "dispatched"
                     [] cb = "ValueError" -> "unexpected_data"
                     [] OTHER -> cb
         ELSE "not_handled"

\* The outcomes with which _processReceivedData returns
Returned == {"ignored", "dispatched", "unexpected_data", "not_handled"}

\* The inner loop of run(): partition the buffer at the separator and process
\* each line until none is complete or a call raises; cbs[i] is what the
\* callback does for the i-th line
RECURSIVE ProcessBuffer(_, _, _, _)
ProcessBuffer(buf, cbs, lines, results) ==
    LET i == Find(buf, CRLF) IN
    IF i = 0
    THEN [buffer |-> buf, lines |-> lines, results |-> results]
    ELSE LET command == SubSeq(buf, 1, i - 1)
             remainder == SubSeq(buf, i + Len(CRLF), Len(buf))
         IN  IF command = <<>>
             THEN ProcessBuffer(remainder, cbs, lines, results)
             ELSE LET r == _processReceivedData(command, cbs[Len(lines) + 1]) IN
                  IF r \in Returned
                  THEN ProcessBuffer(remainder, cbs, Append(lines, command),
                                     Append(results, r))
                  ELSE [buffer |-> remainder, lines |-> Append(lines, command),
                        results |-> Append(results, r)]

\* Lines the controller sends: a button press, a button press with a button
\* that is no number, an unknown line and a line that is not UTF-8
LineGood == <<"K","B","P",","," ","[","1",":","1",":","1","]",","," ","1">>
LineBadInt == <<"K","B","P",","," ","[","1",":","1",":","1","]",","," ","x">>
LineUnknown == <<"x">>
LineUndecodable == <<"xFF">>

\* What one recv() returns
ThreadChunks ==
    { l \o CRLF : l \in {LineGood, LineBadInt, LineUnknown, LineUndecodable} }
    \cup { l \o CRLF \o LineGood \o CRLF :
             l \in {LineGood, LineBadInt, LineUndecodable} }
    \cup { <<"x">> }

InitThread ==
    /\ TransportIdle
    /\ LifecycleIdle
    /\ WrapperIdle
    /\ ParserIdle
    /\ EngineIdle
    /\ CommandsIdle
    /\ _running = FALSE
    /\ _read_task = "none"
    /\ runPc = "start"
    /\ sockOpen = FALSE
    /\ _connected = FALSE
    /\ _reconnect_delay = RECONNECT_DELAY_MIN
    /\ hasCreds = FALSE
    /\ subWritten = <<>>
    /\ readIssued = FALSE
    /\ conns = 0
    /\ failCount = 0
    /\ failTotal = 0
    /\ lastAct = [op |-> "init"]
    /\ stopPc = "idle"
    /\ stopResult = "none"

\* variables the threaded client does not have
ThreadFrame ==
    UNCHANGED <<stream, pos, out, lastRet, engineVars, commandVars,
                transportVars, lifecycleVars, wrapper, _connected,
                _reconnect_delay, hasCreds, subWritten, readIssued, conns,
                failCount, failTotal>>

\* Thread.start() by the host: the thread exists and has not run yet
Homeworks_start ==
    /\ _read_task = "none" /\ stopPc = "idle" /\ stopResult = "none"
    /\ _read_task' = "alive"
    /\ runPc' = "start"
    /\ lastAct' = [op |-> "start"]
    /\ ThreadFrame
    /\ UNCHANGED <<buffer, _running, sockOpen, stopPc, stopResult>>

\* run(): its first statements, self._running = True and buffer = b""
Homeworks_run_begin ==
    /\ _read_task = "alive" /\ runPc = "start"
    /\ _running' = TRUE
    /\ buffer' = <<>>
    /\ runPc' = "loop"
    /\ lastAct' = [op |-> "run"]
    /\ ThreadFrame
    /\ UNCHANGED <<_read_task, sockOpen, stopPc, stopResult>>

\* run(): `while self._running` is false; the lines after the loop
Homeworks_run_exit ==
    /\ _read_task = "alive" /\ runPc = "loop" /\ ~_running
    /\ _running' = FALSE
    /\ sockOpen' = FALSE
    /\ _read_task' = "finished"
    /\ lastAct' = [op |-> "exit"]
    /\ ThreadFrame
    /\ UNCHANGED <<buffer, runPc, stopPc, stopResult>>

\* run(): one pass of the loop without a socket: _connect(True), whose
\* HomeworksException is suppressed
Homeworks_run_connect ==
    /\ _read_task = "alive" /\ runPc = "loop" /\ _running /\ ~sockOpen
    /\ \E ok \in BOOLEAN :
        /\ sockOpen' = ok
        /\ lastAct' = [op |-> "connect", ok |-> ok]
    /\ ThreadFrame
    /\ UNCHANGED <<buffer, _running, _read_task, runPc, stopPc, stopResult>>

\* run(): one pass of the loop with a socket in which _read returns bytes
\* (none after POLLING_FREQ without any) and the complete lines are processed
Homeworks_run_read ==
    /\ _read_task = "alive" /\ runPc = "loop" /\ _running /\ sockOpen
    /\ \E data \in ThreadChunks \cup {<<>>},
          cbs \in [1..2 -> CallbackOutcomes] :
        LET r == ProcessBuffer(buffer \o data, cbs, <<>>, <<>>)
            last == IF r.results = <<>> THEN "none"
                    ELSE r.results[Len(r.results)]
        IN  /\ Len(r.buffer) <= MaxBuf
            /\ lastAct' = [op |-> "read", data |-> data, lines |-> r.lines,
                           results |-> r.results,
                           cbs |-> SubSeq(cbs, 1, Len(r.lines))]
            /\ CASE last \in Returned \cup {"none"} ->
                      /\ buffer' = r.buffer
                      /\ UNCHANGED <<sockOpen, _read_task, runPc>>
                 [] last = "ConnectionError" ->
                      /\ buffer' = <<>>
                      /\ sockOpen' = FALSE
                      /\ runPc' = IF _running THEN "sleep" ELSE "loop"
                      /\ UNCHANGED _read_task
                 [] OTHER ->
                      /\ buffer' = r.buffer
                      /\ _read_task' = "crashed"
                      /\ UNCHANGED <<sockOpen, runPc>>
    /\ ThreadFrame
    /\ UNCHANGED <<_running, stopPc, stopResult>>

\* run(): one pass of the loop in which recv() returns b"": _read closes the
\* socket and raises HomeworksConnectionLost
Homeworks_run_lost ==
    /\ _read_task = "alive" /\ runPc = "loop" /\ _running /\ sockOpen
    /\ buffer' = <<>>
    /\ sockOpen' = FALSE
    /\ runPc' = IF _running THEN "sleep" ELSE "loop"
    /\ lastAct' = [op |-> "lost"]
    /\ ThreadFrame
    /\ UNCHANGED <<_running, _read_task, stopPc, stopResult>>

\* run(): time.sleep(POLLING_FREQ) after a lost connection is over
Homeworks_run_slept ==
    /\ _read_task = "alive" /\ runPc = "sleep"
    /\ runPc' = "loop"
    /\ lastAct' = [op |-> "slept"]
    /\ ThreadFrame
    /\ UNCHANGED <<buffer, _running, _read_task, sockOpen, stopPc, stopResult>>

\* stop() by the host, after start(): self._running = False, then join()
Homeworks_stop ==
    /\ _read_task # "none" /\ stopPc = "idle" /\ stopResult = "none"
    /\ _running' = FALSE
    /\ stopPc' = "join"
    /\ lastAct' = [op |-> "stop_called"]
    /\ ThreadFrame
    /\ UNCHANGED <<buffer, _read_task, runPc, sockOpen, stopResult>>

\* stop(): join() returns once the thread has ended
Homeworks_join ==
    /\ stopPc = "join" /\ _read_task \in {"finished", "crashed"}
    /\ stopPc' = "idle"
    /\ stopResult' = "returned"
    /\ lastAct' = [op |-> "stop"]
    /\ ThreadFrame
    /\ UNCHANGED <<buffer, _running, _read_task, runPc, sockOpen>>

\* The steps of the thread
ThreadSteps ==
    \/ Homeworks_run_begin \/ Homeworks_run_exit \/ Homeworks_run_connect
    \/ Homeworks_run_read \/ Homeworks_run_lost \/ Homeworks_run_slept

NextThread ==
    \/ Homeworks_start \/ Homeworks_stop \/ Homeworks_join
    \/ Homeworks_run_begin \/ Homeworks_run_exit \/ Homeworks_run_connect
    \/ Homeworks_run_read \/ Homeworks_run_lost \/ Homeworks_run_slept

\* The thread is scheduled again and again while it can run, and so is the
\* host waiting in join()
SpecThread ==
    /\ InitThread /\ [][NextThread]_vars
    /\ WF_vars(ThreadSteps) /\ WF_vars(Homeworks_join)

\* C35: a stop() called at any point after start() eventually returns
C35_StopReturns == (stopPc = "join") ~> (stopResult = "returned")

\* C36: a line that cannot be decoded or parsed, and a callback that raises
\* for a line, cost that line only: every complete line of the pass was
\* processed, the thread is alive and the socket is still open
C36_BadLineContained ==
    (lastAct.op = "read" /\ lastAct.lines # <<>>)
        => /\ _read_task = "alive"
           /\ sockOpen
           /\ \A i \in 1..Len(lastAct.results) : lastAct.results[i] \in Returned

(***************************************************************************)
(* The polling set, repeated registration and the optimistic update of the  *)
(* command methods, on SpecEngine                                           *)
(***************************************************************************)

\* C37: the polling set holds exactly the [pp:ll:aa] addresses of the devices
\* that are registered
C37_PollingSetExact ==
    _kls_poll_addresses =
        { to_kls_address(_cco_devices[k].address) : k \in DOMAIN _cco_devices }

\* C38: register_cco_device for a unique_key that is registered already leaves
\* the state cache, the registry and the polling set as they were
C38_RegisterIdempotent ==
    [][(lastOp'.op = "register" /\ lastOp'.key \in DOMAIN _cco_devices)
          => UNCHANGED <<_cco_states, _cco_devices, _kls_poll_addresses>>]_vars

\* C39: after a successful async_cco_close (async_cco_open) for a registered
\* device the cached state is the one the KLS path derives from digit 1 (from
\* a digit other than 1), so that the confirming KLS update finds nothing to
\* change
C39_CommandMatchesKls ==
    (/\ lastOp.op \in {"cco_close", "cco_open"}
     /\ lastOp.result
     /\ lastOp.key \in DOMAIN _cco_devices)
    => \A digit \in 0..3 :
          (digit = 1) = (lastOp.op = "cco_close")
             => _cco_states[lastOp.key]
                    = interpret_state(_cco_devices[lastOp.key], digit)

\* C40: a command of a host task is written to a socket only after the login
\* exchange and the five subscription writes on that socket are done
C40_CommandsAfterSubscribe ==
    [][\A t \in Tasks :
          (cmdPc[t] # "delay" /\ cmdPc'[t] = "delay")
             => subWritten = SubscribeCommands]_vars

====
